---- MODULE Spec2Model ----
(***************************************************************************)
(* Berlin Wastewater Dashboard: the data-aggregation pipeline of           *)
(* processData.ts (getStations, filterDataByStation) as a state machine.   *)
(*                                                                         *)
(* JavaScript strings are sequences of one-character strings, so that      *)
(* String.includes, String.startsWith, String.replace, parseFloat and      *)
(* d3.timeParse are computed character by character as the code does.      *)
(* A JavaScript number is a record [t |-> "number", n, d]: the rational    *)
(* n/d in lowest terms when d > 0, and 1/0 = Infinity, -1/0 = -Infinity,   *)
(* 0/0 = NaN.  Finite doubles are modelled by exact rationals (rounding of *)
(* the double format is not modelled); the non-finite values follow        *)
(* IEEE 754 as JavaScript does.                                            *)
(***************************************************************************)
EXTENDS Integers, Sequences, FiniteSets, TLC

\* rawData: the argument of the calls; call: the last call and how it ended;
\* stations: what getStations returned; points: what filterDataByStation
\* returned
\* datasets: the ProcessedEntry[][] given to getGlobalMaxFromProcessedDatasets
\* and, series by series, to computeWeightedSeries; globalMax and
\* weightedSeries: what these returned
\* previous: the call of filterDataByStation made before the last one, with
\* what it returned and the dataset it was given
\* response: the HTTP response to fetch("/data/data.json"); phase: how far
\* main.ts has got; selected: the option of the dropdown; drawn: for each
\* option, the upper bound of the y-axis of the chart last drawn for it;
\* coreCalls: the functions of processData.ts that main.ts has called
VARIABLES rawData, call, stations, points,
          datasets, globalMax, weightedSeries,
          previous,
          response, phase, selected, drawn, coreCalls, errorMessage, chartData,
          dataFile, fetchRun

seriesVars == <<datasets, globalMax, weightedSeries>>

appVars == <<response, phase, selected, drawn, coreCalls, errorMessage, chartData>>

fetchVars == <<dataFile, fetchRun>>

vars == <<rawData, call, stations, points, seriesVars, previous, appVars, fetchVars>>

(***************************************************************************)
(* JavaScript values                                                       *)
(***************************************************************************)

RECURSIVE Gcd(_, _)
Gcd(a, b) == IF b = 0 THEN a ELSE Gcd(b, a % b)

Abs(x) == IF x < 0 THEN -x ELSE x

\* A number value; finite values are kept in lowest terms with d > 0.
Num(n, d) ==
  IF d = 0
    THEN [t |-> "number", n |-> (IF n > 0 THEN 1 ELSE IF n < 0 THEN -1 ELSE 0), d |-> 0]
    ELSE LET g == Gcd(Abs(n), Abs(d))
             s == IF d < 0 THEN -1 ELSE 1
         IN  [t |-> "number", n |-> s * (n \div g), d |-> s * (d \div g)]

Int2Num(i) == Num(i, 1)

NaN == [t |-> "number", n |-> 0, d |-> 0]

PosInfinity == [t |-> "number", n |-> 1, d |-> 0]

NegInfinity == [t |-> "number", n |-> -1, d |-> 0]

Null == [t |-> "null", n |-> 0, d |-> 0]

Undefined == [t |-> "undefined", n |-> 0, d |-> 0]

\* A string value (typeof x === "string") and a value of any other type.
Str(s) == [t |-> "string", s |-> s]

IsNumber(x) == x.t = "number"

\* isNaN(x) for a number x
isNaN(x) == x.d = 0 /\ x.n = 0

IsFiniteNum(x) == x.t = "number" /\ x.d > 0

\* a + b on numbers (IEEE 754: Infinity + -Infinity is NaN)
NumAdd(a, b) ==
  IF isNaN(a) \/ isNaN(b) THEN NaN
  ELSE IF a.d = 0 THEN (IF b.d = 0 /\ b.n # a.n THEN NaN ELSE a)
  ELSE IF b.d = 0 THEN b
  ELSE Num(a.n * b.d + b.n * a.d, a.d * b.d)

\* a / c for a count c >= 1
NumDivCount(a, c) == IF a.d = 0 THEN a ELSE Num(a.n, a.d * c)

\* a >= b on numbers (false when either is NaN)
NumGE(a, b) ==
  IF isNaN(a) \/ isNaN(b) THEN FALSE
  ELSE IF a.d = 0 THEN (a.n = 1 \/ b = a)
  ELSE IF b.d = 0 THEN b.n = -1
  ELSE a.n * b.d >= b.n * a.d

NumGT(a, b) == NumGE(a, b) /\ a # b

(***************************************************************************)
(* Strings                                                                 *)
(***************************************************************************)

DigitChars == <<"0", "1", "2", "3", "4", "5", "6", "7", "8", "9">>

IsDigit(c) == \E i \in 1..10 : DigitChars[i] = c

DigitVal(c) == (CHOOSE i \in 1..10 : DigitChars[i] = c) - 1

IsSpace(c) == c = " "

\* s.slice(i - 1) with 1-based i: the characters of s from position i on
Slice(s, i) == IF i > Len(s) THEN <<>> ELSE SubSeq(s, i, Len(s))

\* s.startsWith(p)
startsWith(s, p) == Len(s) >= Len(p) /\ SubSeq(s, 1, Len(p)) = p

\* s.includes(p)
includes(s, p) ==
  \E i \in 1..(Len(s) - Len(p) + 1) : SubSeq(s, i, i + Len(p) - 1) = p

\* s.replace(a, b) for one-character a and b: the first occurrence only
replace(s, a, b) ==
  IF \E i \in 1..Len(s) : s[i] = a
    THEN LET k == CHOOSE i \in 1..Len(s) : s[i] = a /\ \A j \in 1..(i - 1) : s[j] # a
         IN  [s EXCEPT ![k] = b]
    ELSE s

\* the position after the run of characters satisfying the test that starts at i
RECURSIVE SkipDigits(_, _)
SkipDigits(s, i) ==
  IF i <= Len(s) /\ IsDigit(s[i]) THEN SkipDigits(s, i + 1) ELSE i

RECURSIVE SkipSpaces(_, _)
SkipSpaces(s, i) ==
  IF i <= Len(s) /\ IsSpace(s[i]) THEN SkipSpaces(s, i + 1) ELSE i

\* the value of the decimal digits s[i..j-1]
RECURSIVE DigitsValue(_, _, _)
DigitsValue(s, i, j) ==
  IF j <= i THEN 0 ELSE 10 * DigitsValue(s, i, j - 1) + DigitVal(s[j - 1])

RECURSIVE Pow10(_)
Pow10(k) == IF k = 0 THEN 1 ELSE 10 * Pow10(k - 1)

S_Infinity == <<"I", "n", "f", "i", "n", "i", "t", "y">>

S_NaN == <<"N", "a", "N">>

\* parseFloat(s): leading white space, an optional sign, then the longest
\* prefix that is Infinity or a decimal literal with an optional exponent;
\* NaN when there is none.
parseFloat(s) ==
  LET i0   == SkipSpaces(s, 1)
      neg  == i0 <= Len(s) /\ s[i0] = "-"
      i1   == IF i0 <= Len(s) /\ s[i0] \in {"+", "-"} THEN i0 + 1 ELSE i0
      sgn  == IF neg THEN -1 ELSE 1
      i2   == SkipDigits(s, i1)
      dot  == i2 <= Len(s) /\ s[i2] = "."
      i3   == IF dot THEN SkipDigits(s, i2 + 1) ELSE i2
      nInt == i2 - i1
      nFrc == IF dot THEN i3 - (i2 + 1) ELSE 0
      hasE == i3 <= Len(s) /\ s[i3] \in {"e", "E"}
      eNeg == hasE /\ i3 + 1 <= Len(s) /\ s[i3 + 1] = "-"
      i4   == IF hasE /\ i3 + 1 <= Len(s) /\ s[i3 + 1] \in {"+", "-"}
                THEN i3 + 2 ELSE i3 + 1
      i5   == IF hasE THEN SkipDigits(s, i4) ELSE i4
      ex   == IF hasE /\ i5 > i4 THEN DigitsValue(s, i4, i5) ELSE 0
      mant == DigitsValue(s, i1, i2) * Pow10(nFrc)
                + (IF dot THEN DigitsValue(s, i2 + 1, i3) ELSE 0)
  IN  IF startsWith(Slice(s, i1), S_Infinity)
        THEN Num(sgn, 0)
      ELSE IF nInt + nFrc = 0
        THEN NaN
      ELSE IF eNeg
        THEN Num(sgn * mant, Pow10(nFrc) * Pow10(ex))
      ELSE Num(sgn * mant * Pow10(ex), Pow10(nFrc))

\* the decimal digits of a natural number
RECURSIVE NatToString(_)
NatToString(k) ==
  IF k < 10 THEN <<DigitChars[k + 1]>>
  ELSE Append(NatToString(k \div 10), DigitChars[(k % 10) + 1])

\* x.toString() for a string (itself) or a number; the numbers of the
\* model's datasets are integers or non-finite.
toString(x) ==
  IF x.t = "string" THEN x.s
  ELSE IF isNaN(x) THEN S_NaN
  ELSE IF x.d = 0 THEN (IF x.n < 0 THEN <<"-">> ELSE <<>>) \o S_Infinity
  ELSE (IF x.n < 0 THEN <<"-">> ELSE <<>>) \o NatToString(Abs(x.n))

(***************************************************************************)
(* d3.timeParse("%d.%m.%Y")                                                *)
(***************************************************************************)

\* numberRe = /^\s*\d+/ applied to s.slice(i, i + w): the position after the
\* match, or 0 when there is none
NumberEnd(s, i, w) ==
  LET lim == IF i + w - 1 < Len(s) THEN i + w - 1 ELSE Len(s)
      win == IF i > lim THEN <<>> ELSE SubSeq(s, 1, lim)
      a   == SkipSpaces(win, i)
      b   == SkipDigits(win, a)
  IN  IF b > a THEN b ELSE 0

NumberAt(s, i, e) == DigitsValue(s, SkipSpaces(s, i), e)

IsLeap(y) == (y % 4 = 0 /\ y % 100 # 0) \/ y % 400 = 0

DaysInMonth(y, m) ==
  IF m = 2 THEN (IF IsLeap(y) THEN 29 ELSE 28)
  ELSE IF m \in {4, 6, 9, 11} THEN 30 ELSE 31

RECURSIVE DaysBeforeMonth(_, _)
DaysBeforeMonth(y, m) ==
  IF m <= 1 THEN 0 ELSE DaysBeforeMonth(y, m - 1) + DaysInMonth(y, m - 1)

\* days from 1 January of year 0 to 1 January of year y (y >= 0)
DaysBeforeYear(y) ==
  IF y = 0 THEN 0
  ELSE 365 * y + ((y - 1) \div 4) - ((y - 1) \div 100) + ((y - 1) \div 400) + 1

\* new Date(y, m0, d) at local midnight as a day number: month index m0 and
\* day d outside their ranges carry over as Date does
localDate(y, m0, d) ==
  LET yy == y + (m0 \div 12)
      mm == (m0 % 12) + 1
  IN  DaysBeforeYear(yy) + DaysBeforeMonth(yy, mm) + d - 1

NoDate == -1

\* d3.timeParse("%d.%m.%Y")(s): the day number of the parsed date, or NoDate
\* (null) when s does not match the format up to its end
timeParse(s) ==
  LET e1 == NumberEnd(s, 1, 2)
      e2 == IF e1 > 0 /\ e1 <= Len(s) /\ s[e1] = "." /\ e1 + 1 <= Len(s)
              THEN NumberEnd(s, e1 + 1, 2) ELSE 0
      e3 == IF e2 > 0 /\ e2 <= Len(s) /\ s[e2] = "." /\ e2 + 1 <= Len(s)
              THEN NumberEnd(s, e2 + 1, 4) ELSE 0
  IN  IF e3 = 0 \/ e3 # Len(s) + 1 THEN NoDate
      ELSE localDate(NumberAt(s, e2 + 1, e3),
                     NumberAt(s, e1 + 1, e2) - 1,
                     NumberAt(s, 1, e1))

(***************************************************************************)
(* d3-array: mean, min, max over an array of numbers                       *)
(***************************************************************************)

\* d3.mean's loop over the first k values: <<count, sum>>; a value is
\* counted when (value = +value) >= value, i.e. when it is not NaN
RECURSIVE MeanAcc(_, _)
MeanAcc(values, k) ==
  IF k = 0 THEN <<0, Int2Num(0)>>
  ELSE LET acc == MeanAcc(values, k - 1)
           v   == values[k]
       IN  IF NumGE(v, v) THEN <<acc[1] + 1, NumAdd(acc[2], v)>> ELSE acc

\* d3.mean(values): sum / count, undefined when nothing was counted
d3_mean(values) ==
  LET acc == MeanAcc(values, Len(values))
  IN  IF acc[1] # 0 THEN NumDivCount(acc[2], acc[1]) ELSE Undefined

\* d3.min's loop: min > value || (min === undefined && value >= value)
RECURSIVE MinAcc(_, _)
MinAcc(values, k) ==
  IF k = 0 THEN Undefined
  ELSE LET m == MinAcc(values, k - 1)
           v == values[k]
       IN  IF (IsNumber(m) /\ NumGT(m, v)) \/ (m = Undefined /\ NumGE(v, v))
             THEN v ELSE m

d3_min(values) == MinAcc(values, Len(values))

\* d3.max's loop: max < value || (max === undefined && value >= value)
RECURSIVE MaxAcc(_, _)
MaxAcc(values, k) ==
  IF k = 0 THEN Undefined
  ELSE LET m == MaxAcc(values, k - 1)
           v == values[k]
       IN  IF (IsNumber(m) /\ NumGT(v, m)) \/ (m = Undefined /\ NumGE(v, v))
             THEN v ELSE m

d3_max(values) == MaxAcc(values, Len(values))

(***************************************************************************)
(* processData.ts                                                          *)
(***************************************************************************)

S_SARS_CoV_2 == <<"S", "A", "R", "S", "-", "C", "o", "V", "-", "2">>

S_E_gene == <<"E", "-", "g", "e", "n", "e">>

S_copy_number_ == <<"c", "o", "p", "y", "_", "n", "u", "m", "b", "e", "r", "_">>

\* Array.prototype.filter
Filter(seq, Keep(_)) == SelectSeq(seq, Keep)

\* Array.prototype.map
Map(seq, F(_)) == SubSeq([i \in 1..Len(seq) |-> F(seq[i])], 1, Len(seq))

\* [...new Set(seq)]: the distinct elements in insertion order
RECURSIVE SetOrder(_)
SetOrder(seq) ==
  IF seq = <<>> THEN <<>>
  ELSE LET front == SetOrder(SubSeq(seq, 1, Len(seq) - 1))
           x     == seq[Len(seq)]
       IN  IF \E i \in 1..Len(front) : front[i] = x THEN front ELSE Append(front, x)

\* what a call leaves behind: whether it threw, its return value and the
\* console.warn lines it wrote
Returned(ret, warn) == [threw |-> FALSE, ret |-> ret, warn |-> warn]

Threw == [threw |-> TRUE, ret |-> <<>>, warn |-> <<>>]

\* (d) => d.measuring_point
MeasuringPoint(d) == d.measuring_point

\* getStations without the Set: every measuring_point, duplicates kept
getStations_noSet(raw) ==
  IF ~raw.isArray THEN Threw
  ELSE Returned(Map(raw.items, MeasuringPoint), <<>>)

\* getStations of the current processData.ts: rawData.map on a value that
\* is not an array (null, undefined, a plain object) is a TypeError
getStations(raw) ==
  IF ~raw.isArray THEN Threw
  ELSE Returned(SetOrder(Map(raw.items, MeasuringPoint)), <<>>)

\* getStations with the Array.isArray guard
getStations_guarded(raw) ==
  IF ~raw.isArray
    THEN Returned(<<>>, <<"getStations called with invalid rawData:">>)
  ELSE Returned(SetOrder(Map(raw.items, MeasuringPoint)), <<>>)

\* the filter on d.results without the exclusion of the E-gene marker
IsRelevantResult_noExclusion(r) ==
  /\ r.name.t = "string"
  /\ includes(r.name.s, S_SARS_CoV_2)
  /\ r.parameter.isArray

\* the filter on d.results: a relevant result
IsRelevantResult(r) ==
  /\ r.name.t = "string"
  /\ includes(r.name.s, S_SARS_CoV_2)
  /\ ~includes(r.name.s, S_E_gene)
  /\ r.parameter.isArray

\* the early return of the parameter loop: p is skipped
SkipsParameter(p) ==
  \/ p.isNull
  \/ p.name.t # "string"
  \/ ~startsWith(p.name.s, S_copy_number_)
  \/ (p.result.t # "string" /\ p.result.t # "number")

\* a version that does not look at the name of the parameter
ParameterValue_anyName(p) ==
  IF p.isNull \/ (p.result.t # "string" /\ p.result.t # "number") THEN NaN
  ELSE parseFloat(replace(toString(p.result), ",", "."))

\* the value the parameter loop parses from p, NaN when p is skipped
ParameterValue(p) ==
  IF SkipsParameter(p) THEN NaN
  ELSE parseFloat(replace(toString(p.result), ",", "."))

\* if (!isNaN(v)) resultValues.push(v)
PushValue(v) == IF isNaN(v) THEN <<>> ELSE <<v>>

\* resultValues of one result: the parsed values that are not NaN
RECURSIVE ResultValues(_)
ResultValues(params) ==
  IF params = <<>> THEN <<>>
  ELSE PushValue(ParameterValue(Head(params))) \o ResultValues(Tail(params))

\* if (resultValues.length > 0) { meanPerTest = d3.mean(resultValues);
\*   if (meanPerTest !== undefined) testMeans.push(meanPerTest) }
PushMean(resultValues) ==
  IF Len(resultValues) > 0 /\ d3_mean(resultValues) # Undefined
    THEN <<d3_mean(resultValues)>> ELSE <<>>

\* testMeans after the forEach over the relevant results
RECURSIVE TestMeans(_)
TestMeans(results) ==
  IF results = <<>> THEN <<>>
  ELSE PushMean(ResultValues(Head(results).parameter.items)) \o TestMeans(Tail(results))

\* d.results ?? []
ResultsOrEmpty(d) == IF d.results.isArray THEN d.results.items ELSE <<>>

\* the object the map callback returns, from testMeans and the parsed date
EntryOf(testMeans, date) ==
  [date  |-> date,
   value |-> IF Len(testMeans) # 0 THEN d3_mean(testMeans) ELSE Null,
   min   |-> IF Len(testMeans) # 0 THEN d3_min(testMeans) ELSE Null,
   max   |-> IF Len(testMeans) # 0 THEN d3_max(testMeans) ELSE Null]

\* the map callback on one sample d whose date is given
AggregateEntry(d, date) ==
  EntryOf(TestMeans(Filter(ResultsOrEmpty(d), IsRelevantResult)), date)

\* the final filter without the checks of value, min and max
IsProcessedEntry_dateOnly(e) == e.date # NoDate

\* the final filter: !!d.date && d.value !== null && d.min !== null && d.max !== null
IsProcessedEntry(e) ==
  e.date # NoDate /\ e.value # Null /\ e.min # Null /\ e.max # Null

W_InvalidDate == "Skipping entry with invalid date:"

\* filterDataByStation without the filter on measuring_point
filterDataByStation_anyStation(raw, station) ==
  IF ~raw.isArray THEN Threw
  ELSE LET Valid(d)   == timeParse(d.extraction_date) # NoDate
           Invalid(d) == ~Valid(d)
           Warn(d)    == <<W_InvalidDate, d.extraction_date>>
           Entry(d)   == AggregateEntry(d, timeParse(d.extraction_date))
       IN  Returned(
             Filter(Map(Filter(raw.items, Valid), Entry), IsProcessedEntry),
             Map(Filter(raw.items, Invalid), Warn))

\* filterDataByStation of the current processData.ts: dates are parsed
\* first, samples with an invalid date are warned about and dropped, then
\* the station's samples are aggregated.  rawData.map on a value that is
\* not an array is a TypeError.
filterDataByStation(raw, station) ==
  IF ~raw.isArray THEN Threw
  ELSE LET Valid(d)   == timeParse(d.extraction_date) # NoDate
           Invalid(d) == ~Valid(d)
           Warn(d)    == <<W_InvalidDate, d.extraction_date>>
           AtStation(d) == d.measuring_point = station
           Entry(d)   == AggregateEntry(d, timeParse(d.extraction_date))
           parsedData == Filter(raw.items, Valid)
       IN  Returned(
             Filter(Map(Filter(parsedData, AtStation), Entry), IsProcessedEntry),
             Map(Filter(raw.items, Invalid), Warn))

\* filterDataByStation with the Array.isArray guard: an empty result and no
\* warning for a value that is not an array; the date is parsed after the
\* aggregation and an entry without a date is dropped by the final filter
filterDataByStation_guarded(raw, station) ==
  IF ~raw.isArray THEN Returned(<<>>, <<>>)
  ELSE LET AtStation(d) == d.measuring_point = station
           Entry(d)   == AggregateEntry(d, timeParse(d.extraction_date))
       IN  Returned(
             Filter(Map(Filter(raw.items, AtStation), Entry), IsProcessedEntry),
             <<>>)

(***************************************************************************)
(* The datasets of the model: RawDataEntry[] values (types.ts) built from  *)
(* a pool of test results, and the values that are not arrays.             *)
(***************************************************************************)

\* an array value, and a value that is not an array (null, undefined, {})
Arr(items) == [isArray |-> TRUE, kind |-> "array", items |-> items]

NotArr(kind) == [isArray |-> FALSE, kind |-> kind, items |-> <<>>]

NoName == [t |-> "undefined", s |-> <<>>]

Param(name, result) == [isNull |-> FALSE, name |-> name, result |-> result]

NullParam == [isNull |-> TRUE, name |-> NoName, result |-> Null]

TestResult(name, parameter) == [name |-> name, parameter |-> parameter]

RawDataEntry(mp, date, results) ==
  [measuring_point |-> mp, extraction_date |-> date, results |-> results]

N_N1 == Str(<<"S", "A", "R", "S", "-", "C", "o", "V", "-", "2", " ", "N", "1">>)

N_N2 == Str(<<"S", "A", "R", "S", "-", "C", "o", "V", "-", "2", " ", "N", "2">>)

N_dPCR_N1 == Str(<<"d", "P", "C", "R", "_", "1", " ", "S", "A", "R", "S", "-", "C", "o", "V", "-", "2", " ", "(", "N", "1", ")">>)

N_E_gene == Str(<<"S", "A", "R", "S", "-", "C", "o", "V", "-", "2", " ", "E", "-", "g", "e", "n", "e">>)

N_PMMoV == Str(<<"P", "M", "M", "o", "V">>)

P_copy_number_1 == Str(<<"c", "o", "p", "y", "_", "n", "u", "m", "b", "e", "r", "_", "1">>)

P_copy_number_2 == Str(<<"c", "o", "p", "y", "_", "n", "u", "m", "b", "e", "r", "_", "2">>)

P_copy_number_3 == Str(<<"c", "o", "p", "y", "_", "n", "u", "m", "b", "e", "r", "_", "3">>)

P_ct_value == Str(<<"c", "t", "_", "v", "a", "l", "u", "e">>)

P_x_copy_number_1 == Str(<<"x", "_", "c", "o", "p", "y", "_", "n", "u", "m", "b", "e", "r", "_", "1">>)

R_100 == Str(<<"1", "0", "0", ",", "0">>)

R_200 == Str(<<"2", "0", "0", ",", "0">>)

R_300 == Str(<<"3", "0", "0", ",", "0">>)

R_abc == Str(<<"a", "b", "c">>)

R_Infinity == Str(S_Infinity)

R_NegInfinity == Str(<<"-">> \o S_Infinity)

\* the pool of test results
T_N1 == TestResult(N_N1, Arr(<<Param(P_copy_number_1, R_100), Param(P_copy_number_2, R_200)>>))

T_N2 == TestResult(N_N2, Arr(<<Param(P_copy_number_1, Int2Num(250))>>))

T_dPCR == TestResult(N_dPCR_N1, Arr(<<Param(P_copy_number_1, R_300)>>))

T_E_gene == TestResult(N_E_gene, Arr(<<Param(P_copy_number_1, R_300)>>))

T_PMMoV == TestResult(N_PMMoV, Arr(<<Param(P_copy_number_1, R_300)>>))

T_NoName == TestResult(NoName, Arr(<<Param(P_copy_number_1, R_300)>>))

T_NoValues ==
  TestResult(N_N1, Arr(<<Param(P_copy_number_1, R_abc), Param(P_ct_value, R_300),
                         Param(NoName, R_300), NullParam,
                         Param(P_x_copy_number_1, R_300),
                         Param(P_copy_number_2, Null)>>))

T_NoParameter == TestResult(N_N1, NotArr("undefined"))

T_Mixed ==
  TestResult(N_N2, Arr(<<Param(P_copy_number_1, R_100), Param(P_copy_number_2, R_abc),
                         Param(P_ct_value, R_200), Param(P_copy_number_3, R_300)>>))

T_Infinities ==
  TestResult(N_N1, Arr(<<Param(P_copy_number_1, R_Infinity),
                         Param(P_copy_number_2, R_NegInfinity)>>))

TestPool ==
  {T_N1, T_N2, T_dPCR, T_E_gene, T_PMMoV, T_NoName, T_NoValues, T_NoParameter,
   T_Mixed, T_Infinities}

MaxTests == 2

MaxSamples == 3

SeqsUpTo(S, n) == UNION {{SubSeq(f, 1, k) : f \in [1..k -> S]} : k \in 0..n}

\* the values of d.results: absent, or up to MaxTests results of the pool
ResultsPool == {NotArr("undefined")} \cup {Arr(rs) : rs \in SeqsUpTo(TestPool, MaxTests)}

Ruhleben == "Klaerwerk Ruhleben"

Schoenerlinde == "Klaerwerk Schoenerlinde"

BER == "BER"

\* the stations of the datasets, and the station arguments of the calls
\* (BER occurs in no dataset)
Stations == {Ruhleben, Schoenerlinde}

StationArgs == Stations \cup {BER}

D_01_02_2022 == <<"0", "1", ".", "0", "2", ".", "2", "0", "2", "2">>

D_03_02_2022 == <<"0", "3", ".", "0", "2", ".", "2", "0", "2", "2">>

D_1_2_2022 == <<"1", ".", "2", ".", "2", "0", "2", "2">>

D_31_01_2022 == <<"3", "1", ".", "0", "1", ".", "2", "0", "2", "2">>

D_iso == <<"2", "0", "2", "2", "-", "0", "2", "-", "0", "1">>

D_empty == <<>>

\* extraction dates: two days, out of order by the calendar when listed as
\* 03.02. then 01.02.; a second spelling of 01.02.2022; two that do not parse
Dates == {D_01_02_2022, D_03_02_2022, D_iso}

DatesOfOne == {D_01_02_2022, D_1_2_2022, D_31_01_2022, D_iso, D_empty}

\* the samples of the longer datasets: of either station, with one valid
\* test and any of Dates, or with no valid value
Samples ==
  {RawDataEntry(mp, date, Arr(<<T_N1>>)) : mp \in Stations, date \in Dates}
    \cup {RawDataEntry(mp, D_01_02_2022, Arr(<<T_NoValues>>)) : mp \in Stations}

\* datasets of up to MaxSamples samples, datasets of one sample with any
\* results of the pool, and the values that are not arrays
Datasets ==
  {Arr(ds) : ds \in SeqsUpTo(Samples, MaxSamples)}
    \cup {Arr(<<RawDataEntry(Ruhleben, date, rs)>>) : date \in DatesOfOne, rs \in ResultsPool}
    \cup {NotArr("null"), NotArr("undefined"), NotArr("object")}

(***************************************************************************)
(* The state machine: a dataset, and the last call made on it              *)
(***************************************************************************)

NoCall == [fn |-> "none", src |-> "", station |-> "", threw |-> FALSE, warn |-> <<>>]

Called(fn, src, station, r) ==
  [fn |-> fn, src |-> src, station |-> station, threw |-> r.threw, warn |-> r.warn]

\* no series has been aggregated and nothing computed from series
SeriesIdle ==
  /\ datasets = <<>>
  /\ globalMax = Undefined
  /\ weightedSeries = <<>>

\* no call of filterDataByStation precedes the last one
NoPrevious == [fn |-> "none", station |-> "", points |-> <<>>, rawData |-> Arr(<<>>)]

\* main.ts is not running
NoResponse == [fetched |-> FALSE, ok |-> FALSE, json |-> FALSE, body |-> NotArr("undefined")]

\* fetchLiveData.js is not running
NoRun == [outcome |-> "none", existing |-> <<>>, newData |-> <<>>, today |-> 0]

FetchIdle ==
  /\ dataFile = [isArray |-> FALSE, kind |-> "undefined", items |-> <<>>]
  /\ fetchRun = NoRun

AppIdle ==
  /\ response = NoResponse
  /\ phase = "off"
  /\ selected = ""
  /\ drawn = {}
  /\ coreCalls = {}
  /\ errorMessage = ""
  /\ chartData = <<>>

Init ==
  /\ rawData \in Datasets
  /\ call = NoCall
  /\ stations = <<>>
  /\ points = <<>>
  /\ SeriesIdle
  /\ previous = NoPrevious
  /\ AppIdle
  /\ FetchIdle

\* const stations = getStations(rawData), with the result r of the call
DoGetStations(src, r) ==
  /\ call' = Called("getStations", src, "", r)
  /\ stations' = r.ret
  /\ points' = <<>>
  /\ UNCHANGED rawData
  /\ UNCHANGED <<seriesVars, previous, appVars, fetchVars>>

\* filterDataByStation(rawData, station), with the result r of the call
DoFilterDataByStation(src, station, r) ==
  /\ call' = Called("filterDataByStation", src, station, r)
  /\ points' = r.ret
  /\ stations' = <<>>
  /\ UNCHANGED rawData
  /\ UNCHANGED <<seriesVars, previous, appVars, fetchVars>>

\* getStations(rawData), current processData.ts
GetStations == DoGetStations("current", getStations(rawData))

\* getStations(rawData), processData.ts with the Array.isArray guard
GetStationsGuarded == DoGetStations("guarded", getStations_guarded(rawData))

\* filterDataByStation(rawData, station), current processData.ts
FilterDataByStation ==
  \E station \in StationArgs :
    DoFilterDataByStation("current", station, filterDataByStation(rawData, station))

\* filterDataByStation(rawData, station), processData.ts with the guard
FilterDataByStationGuarded ==
  \E station \in StationArgs :
    DoFilterDataByStation("guarded", station, filterDataByStation_guarded(rawData, station))

Next ==
  \/ GetStations
  \/ GetStationsGuarded
  \/ FilterDataByStation
  \/ FilterDataByStationGuarded

Spec == Init /\ [][Next]_vars

(***************************************************************************)
(* What the claims speak about, stated on the dataset itself               *)
(***************************************************************************)

IsFilterCall == call.fn = "filterDataByStation" /\ rawData.isArray

\* the name of a result is present, contains "SARS-CoV-2" and not "E-gene"
NameRelevant(r) ==
  /\ r.name.t = "string"
  /\ \E i \in 1..(Len(r.name.s) - 9) : SubSeq(r.name.s, i, i + 9) = S_SARS_CoV_2
  /\ ~\E i \in 1..(Len(r.name.s) - 5) : SubSeq(r.name.s, i, i + 5) = S_E_gene

\* the valid values of a result: those of its copy_number_ parameters whose
\* result is a number or a string that parses to a number
ValidValues(r) ==
  IF r.parameter.isArray THEN ResultValues(r.parameter.items) ELSE <<>>

\* the sample has a relevant result with at least one valid value
HasValidValue(d) ==
  \E j \in 1..Len(ResultsOrEmpty(d)) :
    NameRelevant(ResultsOrEmpty(d)[j]) /\ ValidValues(ResultsOrEmpty(d)[j]) # <<>>

DateParses(d) == timeParse(d.extraction_date) # NoDate

\* the positions of the samples that the call on station st retains
Retained(st) ==
  {i \in 1..Len(rawData.items) :
     /\ rawData.items[i].measuring_point = st
     /\ DateParses(rawData.items[i])
     /\ HasValidValue(rawData.items[i])}

\* the k-th smallest element of a set of positions
Kth(S, k) == CHOOSE i \in S : Cardinality({j \in S : j < i}) = k - 1

\* a <= b in JavaScript: false unless both are numbers and neither is NaN
LessEq(a, b) == IsNumber(a) /\ IsNumber(b) /\ NumGE(b, a)

(***************************************************************************)
(* C1  getStations(rawData) returns each distinct measuring_point of       *)
(* rawData exactly once, in the order of first occurrence, and nothing     *)
(* that does not occur in rawData.                                         *)
(***************************************************************************)
FirstIndex(x) ==
  CHOOSE i \in 1..Len(rawData.items) :
    /\ rawData.items[i].measuring_point = x
    /\ \A j \in 1..(i - 1) : rawData.items[j].measuring_point # x

C1_StationsOnceInFirstSeenOrder ==
  (call.fn = "getStations" /\ rawData.isArray) =>
    /\ ~call.threw
    /\ \A i \in 1..Len(rawData.items) :
         Cardinality({k \in 1..Len(stations) :
                        stations[k] = rawData.items[i].measuring_point}) = 1
    /\ \A k \in 1..Len(stations) :
         \E i \in 1..Len(rawData.items) : rawData.items[i].measuring_point = stations[k]
    /\ \A k1, k2 \in 1..Len(stations) :
         k1 < k2 => FirstIndex(stations[k1]) < FirstIndex(stations[k2])

\* a call on three samples, the first station seen again after the second
C1_Witness ==
  /\ call.fn = "getStations"
  /\ rawData.isArray
  /\ Len(rawData.items) = 3
  /\ rawData.items[1].measuring_point = Schoenerlinde
  /\ rawData.items[2].measuring_point = Ruhleben
  /\ rawData.items[3].measuring_point = Schoenerlinde
  /\ stations = <<Schoenerlinde, Ruhleben>>

(***************************************************************************)
(* C2  getStations called with an argument that is not an array returns an *)
(* empty result and raises no exception.                                   *)
(***************************************************************************)
C2_NotAnArrayGivesNoStations ==
  (call.fn = "getStations" /\ ~rawData.isArray) =>
    (~call.threw /\ stations = <<>>)

(***************************************************************************)
(* C3  filterDataByStation called with a rawData that is not an array      *)
(* returns an empty sequence, emits a diagnostic and does not throw.       *)
(***************************************************************************)
C3_NotAnArrayGivesNoPointsAndWarns ==
  (call.fn = "filterDataByStation" /\ ~rawData.isArray) =>
    (~call.threw /\ points = <<>> /\ call.warn # <<>>)

(***************************************************************************)
(* C4  Station completeness: for every sample of the target station with   *)
(* at least one valid relevant value (and a date that parses), the output  *)
(* holds exactly one point whose date is the parsed extraction date of the *)
(* sample, also when several samples of the station share a date.          *)
(***************************************************************************)
C4_ExactlyOnePointPerSampleDate ==
  IsFilterCall =>
    \A i \in Retained(call.station) :
      Cardinality({k \in 1..Len(points) :
                     points[k].date = timeParse(rawData.items[i].extraction_date)}) = 1

(***************************************************************************)
(* C5  Every point returned by filterDataByStation has                     *)
(* min <= value <= max.                                                    *)
(***************************************************************************)
C5_MinValueMax ==
  IsFilterCall =>
    \A k \in 1..Len(points) :
      LessEq(points[k].min, points[k].value) /\ LessEq(points[k].value, points[k].max)

(***************************************************************************)
(* C6  filterDataByStation(raw, station) emits points only for samples of  *)
(* that station, in the order in which their samples stand in raw (not     *)
(* sorted by date); a station without matching samples gives the empty     *)
(* sequence.                                                               *)
(***************************************************************************)
C6_PointsOfStationInEncounterOrder ==
  IsFilterCall =>
    /\ ~call.threw
    /\ Len(points) = Cardinality(Retained(call.station))
    /\ \A k \in 1..Len(points) :
         points[k].date =
           timeParse(rawData.items[Kth(Retained(call.station), k)].extraction_date)
    /\ (~\E i \in 1..Len(rawData.items) :
           rawData.items[i].measuring_point = call.station) => points = <<>>

\* two points of one station in the order of the samples, the later date
\* first, with a sample of the other station among them
C6_Witness ==
  /\ IsFilterCall
  /\ call.src = "current"
  /\ call.station = Ruhleben
  /\ Len(rawData.items) = 3
  /\ \E i \in 1..3 : rawData.items[i].measuring_point = Schoenerlinde
                       /\ HasValidValue(rawData.items[i]) /\ DateParses(rawData.items[i])
  /\ Len(points) = 2
  /\ points[1].date > points[2].date

\* a station that no sample has
C6_WitnessNoSamples ==
  IsFilterCall /\ call.station = BER /\ Len(rawData.items) = 3 /\ points = <<>>

(***************************************************************************)
(* C7  A sample whose extraction_date does not parse as dd.mm.yyyy gives   *)
(* no point and does not abort the aggregation: the other samples give the *)
(* points they give when the malformed samples are absent.  Every emitted  *)
(* point has a parsed date and a value, min and max that are present       *)
(* (neither null nor undefined).                                           *)
(***************************************************************************)
WellFormedOnly == Arr(SelectSeq(rawData.items, DateParses))

\* the call of the state made again on another dataset
Recompute(raw) ==
  IF call.src = "current"
    THEN filterDataByStation(raw, call.station).ret
    ELSE filterDataByStation_guarded(raw, call.station).ret

IsPresent(x) == x # Null /\ x # Undefined

C7_MalformedDateSkippedPointsComplete ==
  IsFilterCall =>
    /\ ~call.threw
    /\ points = Recompute(WellFormedOnly)
    /\ \A k \in 1..Len(points) :
         /\ points[k].date # NoDate
         /\ IsPresent(points[k].value)
         /\ IsPresent(points[k].min)
         /\ IsPresent(points[k].max)

(***************************************************************************)
(* C8  A test result contributes to the aggregate of its sample iff its    *)
(* name is present, contains "SARS-CoV-2" and does not contain "E-gene":   *)
(* removing every other result from the dataset changes no point, and a    *)
(* sample of the station with a parsed date has a point iff one of its     *)
(* results of such a name has a valid value.                               *)
(***************************************************************************)
OnlyRelevantNames(d) ==
  IF d.results.isArray
    THEN [d EXCEPT !.results = Arr(SelectSeq(d.results.items, NameRelevant))]
    ELSE d

RelevantNamesOnly == Arr(Map(rawData.items, OnlyRelevantNames))

RECURSIVE SumSeq(_)
SumSeq(vs) == IF vs = <<>> THEN Int2Num(0) ELSE NumAdd(SumSeq(SubSeq(vs, 1, Len(vs) - 1)), vs[Len(vs)])

ArithMean(vs) == NumDivCount(SumSeq(vs), Len(vs))

Contributes(r) == NameRelevant(r) /\ ValidValues(r) # <<>>

TestLevelMean(r) == ArithMean(ValidValues(r))

MeansOf(d) == Map(SelectSeq(ResultsOrEmpty(d), Contributes), TestLevelMean)

IsLeastOf(m, L) ==
  (\E j \in 1..Len(L) : L[j] = m) /\ (\A j \in 1..Len(L) : LessEq(m, L[j]))

IsGreatestOf(m, L) ==
  (\E j \in 1..Len(L) : L[j] = m) /\ (\A j \in 1..Len(L) : LessEq(L[j], m))

PointIsMeanOfMeans(e, L) ==
  e.value = ArithMean(L) /\ IsLeastOf(e.min, L) /\ IsGreatestOf(e.max, L)

C9_ValueIsMeanOfTestMeans ==
  (IsFilterCall /\ Len(points) = Cardinality(Retained(call.station))) =>
    \A k \in 1..Len(points) :
      PointIsMeanOfMeans(points[k], MeansOf(rawData.items[Kth(Retained(call.station), k)]))

(***************************************************************************)
(* C10  A sample for which no relevant result yields a valid numeric value *)
(* gives no point at all: the output is that of the dataset without such   *)
(* samples, it is empty when the station has no other sample, and no point *)
(* carries a null value.                                                   *)
(***************************************************************************)
WithValuesOnly == Arr(SelectSeq(rawData.items, HasValidValue))

C10_NoValidValueNoPoint ==
  IsFilterCall =>
    /\ points = Recompute(WithValuesOnly)
    /\ (\A i \in 1..Len(rawData.items) :
          rawData.items[i].measuring_point = call.station => ~HasValidValue(rawData.items[i]))
         => points = <<>>
    /\ \A k \in 1..Len(points) : points[k].value # Null

\* the only sample has a relevant result whose parameters are all unusable
C10_Witness ==
  /\ IsFilterCall
  /\ call.src = "current"
  /\ call.station = Ruhleben
  /\ Len(rawData.items) = 1
  /\ rawData.items[1].results = Arr(<<T_NoValues>>)
  /\ DateParses(rawData.items[1])
  /\ points = <<>>

(***************************************************************************)
(* processData.ts: the global maximum of the aggregated series             *)
(***************************************************************************)

\* a * b on numbers (IEEE 754: Infinity * 0 is NaN)
NumMul(a, b) ==
  IF isNaN(a) \/ isNaN(b) THEN NaN
  ELSE IF a.d = 0 \/ b.d = 0
    THEN (IF a.n = 0 \/ b.n = 0 THEN NaN
          ELSE IF (a.n > 0) = (b.n > 0) THEN PosInfinity ELSE NegInfinity)
  ELSE Num(a.n * b.n, a.d * b.d)

\* the number literal 1.1
N_1_1 == Num(11, 10)

\* Math.round(x): the integer nearest to x, a tie going up; NaN and the
\* infinities are returned as they are
Math_round(x) == IF x.d = 0 THEN x ELSE Int2Num((2 * x.n + x.d) \div (2 * x.d))

\* ToBoolean(x) for undefined, null and numbers: 0 and NaN are falsy
Truthy(x) == IsNumber(x) /\ ~isNaN(x) /\ x # Int2Num(0)

ValueOf(d) == d.value

\* datasets.flatMap(data => data.map(d => d.value))
RECURSIVE FlatMapValues(_)
FlatMapValues(dss) ==
  IF dss = <<>> THEN <<>>
  ELSE FlatMapValues(SubSeq(dss, 1, Len(dss) - 1)) \o Map(dss[Len(dss)], ValueOf)

\* max ? Math.round(max * 1.1) : 0
PaddedMax(max) == IF Truthy(max) THEN Math_round(NumMul(max, N_1_1)) ELSE Int2Num(0)

\* a version without the 10% padding
getGlobalMaxFromProcessedDatasets_noPadding(dss) ==
  LET max == d3_max(FlatMapValues(dss)) IN IF Truthy(max) THEN Math_round(max) ELSE Int2Num(0)

getGlobalMaxFromProcessedDatasets(dss) == PaddedMax(d3_max(FlatMapValues(dss)))

(***************************************************************************)
(* processData.ts: the population-weighted series                          *)
(***************************************************************************)

\* a / b on numbers (IEEE 754)
NumDiv(a, b) ==
  IF isNaN(a) \/ isNaN(b) THEN NaN
  ELSE IF b.d = 0 THEN (IF a.d = 0 THEN NaN ELSE Int2Num(0))
  ELSE IF b.n = 0
    THEN (IF a.n = 0 THEN NaN ELSE IF a.n > 0 THEN PosInfinity ELSE NegInfinity)
  ELSE IF a.d = 0
    THEN (IF (a.n > 0) = (b.n > 0) THEN PosInfinity ELSE NegInfinity)
  ELSE Num(a.n * b.d, a.d * b.n)

\* d3.sum(values): if (value = +value) sum += value, so that NaN and 0 are
\* passed over
RECURSIVE d3_sum(_)
d3_sum(values) ==
  IF values = <<>> THEN Int2Num(0)
  ELSE IF Truthy(values[Len(values)])
    THEN NumAdd(d3_sum(SubSeq(values, 1, Len(values) - 1)), values[Len(values)])
    ELSE d3_sum(SubSeq(values, 1, Len(values) - 1))

\* data/populationByPlant.json: the inhabitants served by each plant
\* (positive numbers; the file is not part of the sources at hand)
populationData == [Ruhleben |-> 3, Schoenerlinde |-> 2, Wassmannsdorf |-> 1]

\* a version that tests the value for truthiness: if (v) { ... }
AddContribution_truthy(acc, v, w) ==
  IF Truthy(v) THEN <<Append(acc[1], NumMul(v, Int2Num(w))), acc[2] + w>> ELSE acc

\* if (v !== null) { weightedContributions.push(v * w); weightSum += w; }
\* acc is <<weightedContributions, weightSum>>
AddContribution(acc, v, w) ==
  IF v # Null THEN <<Append(acc[1], NumMul(v, Int2Num(w))), acc[2] + w>> ELSE acc

\* if (weightSum === 0) return null; return d3.sum(...) / weightSum
WeightedResult(acc) ==
  IF acc[2] = 0 THEN Null ELSE NumDiv(d3_sum(acc[1]), Int2Num(acc[2]))

computeWeightedAverage(ruhleben, schoenerlinde, wassmannsdorf) ==
  WeightedResult(
    AddContribution(AddContribution(AddContribution(<<<<>>, 0>>,
      ruhleben, populationData.Ruhleben),
      schoenerlinde, populationData.Schoenerlinde),
      wassmannsdorf, populationData.Wassmannsdorf))

\* the year of a day number
YearOfDay(day) ==
  CHOOSE y \in (((day * 400) \div 146097) - 1)..(((day * 400) \div 146097) + 1) :
    DaysBeforeYear(y) <= day /\ day < DaysBeforeYear(y + 1)

\* the month 1..12 of the day of the year doy (0-based) of year y
MonthOfDay(y, doy) ==
  CHOOSE m \in 1..12 : DaysBeforeMonth(y, m) <= doy /\ doy < DaysBeforeMonth(y, m + 1)

\* the decimal digits of k, padded with zeros to width w
RECURSIVE Pad(_, _)
Pad(k, w) == IF w = 0 THEN <<>> ELSE Append(Pad(k \div 10, w - 1), DigitChars[(k % 10) + 1])

S_T00_00_00_000Z ==
  <<"T", "0", "0", ":", "0", "0", ":", "0", "0", ".", "0", "0", "0", "Z">>

IsoOf(y, doy) ==
  Pad(y, 4) \o <<"-">> \o Pad(MonthOfDay(y, doy), 2) \o <<"-">>
    \o Pad(doy - DaysBeforeMonth(y, MonthOfDay(y, doy)) + 1, 2) \o S_T00_00_00_000Z

\* date.toISOString() of the date with day number day: YYYY-MM-DDTHH:mm:ss.sssZ
\* (the time zone of the process taken as UTC, so that local midnight is
\* 00:00:00.000Z)
toISOString(day) == IsoOf(YearOfDay(day), day - DaysBeforeYear(YearOfDay(day)))

\* new Date(isoDate) for a string that toISOString wrote
DateOfIso(s) == localDate(DigitsValue(s, 1, 5), DigitsValue(s, 6, 8) - 1, DigitsValue(s, 9, 11))

\* the characters of the ISO strings in the order of their UTF-16 code units
CodeUnitOrder ==
  <<"-", ".", "0", "1", "2", "3", "4", "5", "6", "7", "8", "9", ":", "T", "Z">>

CodeUnit(c) == CHOOSE i \in 1..Len(CodeUnitOrder) : CodeUnitOrder[i] = c

\* a < b as strings: by code units at the first difference, a proper prefix
\* being smaller
RECURSIVE StringLess(_, _)
StringLess(a, b) ==
  IF b = <<>> THEN FALSE
  ELSE IF a = <<>> THEN TRUE
  ELSE IF a[1] = b[1] THEN StringLess(Tail(a), Tail(b))
  ELSE CodeUnit(a[1]) < CodeUnit(b[1])

\* x put into the sorted sequence at its place, after the elements equal to it
RECURSIVE InsertSorted(_, _)
InsertSorted(sorted, x) ==
  IF sorted = <<>> THEN <<x>>
  ELSE IF StringLess(x, sorted[Len(sorted)])
    THEN Append(InsertSorted(SubSeq(sorted, 1, Len(sorted) - 1), x), sorted[Len(sorted)])
    ELSE Append(sorted, x)

\* Array.prototype.sort() without a compare function: ascending by code units
RECURSIVE sort(_)
sort(seq) ==
  IF seq = <<>> THEN <<>>
  ELSE InsertSorted(sort(SubSeq(seq, 1, Len(seq) - 1)), seq[Len(seq)])

IsoOfEntry(d) == toISOString(d.date)

\* const dates = new Set(); each series.forEach(d => dates.add(d.date.toISOString()))
DatesOf(ruhlebenSeries, schoenerlindeSeries, wassmannsdorfSeries) ==
  SetOrder(Map(ruhlebenSeries \o schoenerlindeSeries \o wassmannsdorfSeries, IsoOfEntry))

\* d?.value ?? null
ValueOrNull(v) == IF v = Undefined \/ v = Null THEN Null ELSE v

\* series.find(d => +d.date === +date)?.value ?? null
getValue(series, date) ==
  IF \E k \in 1..Len(series) : series[k].date = date
    THEN ValueOrNull(series[CHOOSE k \in 1..Len(series) :
                              /\ series[k].date = date
                              /\ \A j \in 1..(k - 1) : series[j].date # date].value)
    ELSE Null

\* an entry whose min and max are its value: that of a sample with one
\* contributing test, and that of the weighted series
ProcessedEntry(date, value) == [date |-> date, value |-> value, min |-> value, max |-> value]

\* if (weighted !== null) result.push({date, value: weighted, min: weighted, max: weighted})
PushWeighted(result, date, weighted) ==
  IF weighted # Null THEN Append(result, ProcessedEntry(date, weighted)) ELSE result

\* the loop over sortedDates, for its first k dates
RECURSIVE WeightedLoop(_, _, _, _, _)
WeightedLoop(sortedDates, k, ruhlebenSeries, schoenerlindeSeries, wassmannsdorfSeries) ==
  IF k = 0 THEN <<>>
  ELSE PushWeighted(
         WeightedLoop(sortedDates, k - 1, ruhlebenSeries, schoenerlindeSeries, wassmannsdorfSeries),
         DateOfIso(sortedDates[k]),
         computeWeightedAverage(
           getValue(ruhlebenSeries, DateOfIso(sortedDates[k])),
           getValue(schoenerlindeSeries, DateOfIso(sortedDates[k])),
           getValue(wassmannsdorfSeries, DateOfIso(sortedDates[k]))))

SortedDatesOf(ruhlebenSeries, schoenerlindeSeries, wassmannsdorfSeries) ==
  sort(DatesOf(ruhlebenSeries, schoenerlindeSeries, wassmannsdorfSeries))

\* a version that does not sort the dates
computeWeightedSeries_unsorted(ruhlebenSeries, schoenerlindeSeries, wassmannsdorfSeries) ==
  WeightedLoop(DatesOf(ruhlebenSeries, schoenerlindeSeries, wassmannsdorfSeries),
               Len(DatesOf(ruhlebenSeries, schoenerlindeSeries, wassmannsdorfSeries)),
               ruhlebenSeries, schoenerlindeSeries, wassmannsdorfSeries)

computeWeightedSeries(ruhlebenSeries, schoenerlindeSeries, wassmannsdorfSeries) ==
  WeightedLoop(SortedDatesOf(ruhlebenSeries, schoenerlindeSeries, wassmannsdorfSeries),
               Len(SortedDatesOf(ruhlebenSeries, schoenerlindeSeries, wassmannsdorfSeries)),
               ruhlebenSeries, schoenerlindeSeries, wassmannsdorfSeries)

(***************************************************************************)
(* The aggregated series of the three treatment plants, as                 *)
(* filterDataByStation can return them: in dataset order (not sorted by    *)
(* date), a date possibly twice, a value possibly non-finite or undefined. *)
(***************************************************************************)

Day_15_12_2021 == localDate(2021, 11, 15)

Day_31_01_2022 == localDate(2022, 0, 31)

Day_01_02_2022 == localDate(2022, 1, 1)

Day_03_02_2022 == localDate(2022, 1, 3)

\* the entry of a sample with two tests whose means are Infinity and
\* -Infinity: d3.mean of the two is NaN
EntryOfOppositeInfinities(date) ==
  [date |-> date, value |-> NaN, min |-> NegInfinity, max |-> PosInfinity]

RuhlebenEntries ==
  {ProcessedEntry(Day_01_02_2022, Int2Num(300)),
   ProcessedEntry(Day_31_01_2022, Num(6, 5)),
   ProcessedEntry(Day_03_02_2022, PosInfinity),
   EntryOfOppositeInfinities(Day_01_02_2022)}

SchoenerlindeEntries ==
  {ProcessedEntry(Day_01_02_2022, Int2Num(100)),
   ProcessedEntry(Day_15_12_2021, Int2Num(5)),
   ProcessedEntry(Day_03_02_2022, NegInfinity)}

WassmannsdorfEntries ==
  {ProcessedEntry(Day_01_02_2022, Undefined),
   ProcessedEntry(Day_01_02_2022, Int2Num(0)),
   ProcessedEntry(Day_31_01_2022, Int2Num(15))}

MaxEntries == 2

\* the series of one plant: up to n different entries of its pool, in any order
SeriesUpTo(S, n) ==
  {s \in SeqsUpTo(S, n) : \A i \in 1..Len(s), j \in 1..Len(s) : i < j => s[i] # s[j]}

\* allProcessed: one series per plant, or no series at all
ProcessedDatasets ==
  {<<>>} \cup
  {<<r, s, w>> : r \in SeriesUpTo(RuhlebenEntries, MaxEntries),
                 s \in SeriesUpTo(SchoenerlindeEntries, MaxEntries),
                 w \in SeriesUpTo(WassmannsdorfEntries, MaxEntries)}

(***************************************************************************)
(* The state machine of the functions that work on aggregated series       *)
(***************************************************************************)

InitSeries ==
  /\ rawData = Arr(<<>>)
  /\ call = NoCall
  /\ stations = <<>>
  /\ points = <<>>
  /\ datasets \in ProcessedDatasets
  /\ globalMax = Undefined
  /\ weightedSeries = <<>>
  /\ previous = NoPrevious
  /\ AppIdle
  /\ FetchIdle

\* const globalMax = getGlobalMaxFromProcessedDatasets(allProcessed)
GetGlobalMax ==
  /\ call' = Called("getGlobalMaxFromProcessedDatasets", "current", "", Returned(<<>>, <<>>))
  /\ globalMax' = getGlobalMaxFromProcessedDatasets(datasets)
  /\ weightedSeries' = <<>>
  /\ UNCHANGED <<rawData, stations, points, datasets, previous, appVars, fetchVars>>

\* const weightedCurve = computeWeightedSeries(ruhleben, schoenerlinde, wassmannsdorf)
ComputeWeightedSeries ==
  /\ Len(datasets) = 3
  /\ call' = Called("computeWeightedSeries", "current", "", Returned(<<>>, <<>>))
  /\ weightedSeries' = computeWeightedSeries(datasets[1], datasets[2], datasets[3])
  /\ globalMax' = Undefined
  /\ UNCHANGED <<rawData, stations, points, datasets, previous, appVars, fetchVars>>

NextSeries ==
  \/ GetGlobalMax
  \/ ComputeWeightedSeries

SpecSeries == InitSeries /\ [][NextSeries]_vars

(***************************************************************************)
(* C11  getGlobalMaxFromProcessedDatasets(datasets) is round(1.10 * M) for *)
(* the maximum M of the values of all points of all sequences (the result  *)
(* is an integer at most 1/2 away from 1.1 * M, or M itself when M is      *)
(* infinite), and 0 when no sequence holds a point, the empty list of      *)
(* sequences included.                                                     *)
(***************************************************************************)
IsGlobalMaxCall == call.fn = "getGlobalMaxFromProcessedDatasets"

\* the values of the points of all sequences that are numbers
AllValues ==
  UNION {{datasets[i][k].value : k \in 1..Len(datasets[i])} : i \in 1..Len(datasets)}

NumberValues == {v \in AllValues : IsNumber(v) /\ ~isNaN(v)}

HasMaximum == NumberValues # {}

Maximum == CHOOSE m \in NumberValues : \A v \in NumberValues : NumGE(m, v)

\* x is an integer and |x - 1.1 * m| <= 1/2, for finite m
IsRoundOfPadded(x, m) ==
  /\ IsFiniteNum(x) /\ x.d = 1
  /\ 2 * Abs(10 * m.d * x.n - 11 * m.n) <= 10 * m.d

C11_GlobalMaxIsRoundedPaddedMaximum ==
  IsGlobalMaxCall =>
    /\ (AllValues = {} => globalMax = Int2Num(0))
    /\ HasMaximum =>
         IF Maximum.d = 0 THEN globalMax = Maximum
         ELSE IsRoundOfPadded(globalMax, Maximum)

\* the maximum is 5 and the returned bound is 6 = round(5.5)
C11_Witness ==
  /\ IsGlobalMaxCall
  /\ HasMaximum
  /\ Maximum = Int2Num(5)
  /\ globalMax = Int2Num(6)

\* no sequences at all, or only empty ones
C11_WitnessNoPoint ==
  /\ IsGlobalMaxCall
  /\ datasets = <<<<>>, <<>>, <<>>>>
  /\ globalMax = Int2Num(0)

(***************************************************************************)
(* C12  The number returned by getGlobalMaxFromProcessedDatasets is an     *)
(* upper bound of its data: it is greater than or equal to the value of    *)
(* every point of every input sequence.                                    *)
(***************************************************************************)
C12_GlobalMaxIsUpperBound ==
  IsGlobalMaxCall => \A v \in NumberValues : NumGE(globalMax, v)

(***************************************************************************)
(* C13  A point of the computeWeightedSeries output for a date has the     *)
(* value sum(v_i * w_i) / sum(w_i) over the stations that report a value   *)
(* at that date only (the weight of an absent station is not in the        *)
(* denominator), and every date at which a station reports has a point.    *)
(***************************************************************************)
IsWeightedCall == call.fn = "computeWeightedSeries"

Plants == {1, 2, 3}

\* the population weight of the plant whose series is the i-th argument
WeightOf(i) ==
  IF i = 1 THEN populationData.Ruhleben
  ELSE IF i = 2 THEN populationData.Schoenerlinde
  ELSE populationData.Wassmannsdorf

\* the plants that report a value at date D: the first point of the series
\* with that date carries a number
PointsAt(i, D) == {k \in 1..Len(datasets[i]) : datasets[i][k].date = D}

FirstAt(i, D) == datasets[i][CHOOSE k \in PointsAt(i, D) : \A j \in PointsAt(i, D) : k <= j]

Reporting(D) == {i \in Plants : PointsAt(i, D) # {} /\ IsNumber(FirstAt(i, D).value)}

SeriesDates == UNION {{datasets[i][k].date : k \in 1..Len(datasets[i])} : i \in 1..Len(datasets)}

Term(i, D) ==
  IF i \in Reporting(D) THEN NumMul(FirstAt(i, D).value, Int2Num(WeightOf(i))) ELSE Int2Num(0)

WeightTerm(i, D) == IF i \in Reporting(D) THEN WeightOf(i) ELSE 0

WeightedMeanAt(D) ==
  NumDiv(NumAdd(NumAdd(Term(1, D), Term(2, D)), Term(3, D)),
         Int2Num(WeightTerm(1, D) + WeightTerm(2, D) + WeightTerm(3, D)))

C13_WeightedOverReportingStationsOnly ==
  IsWeightedCall =>
    /\ \A k \in 1..Len(weightedSeries) :
         /\ Reporting(weightedSeries[k].date) # {}
         /\ weightedSeries[k].value = WeightedMeanAt(weightedSeries[k].date)
    /\ \A D \in SeriesDates :
         Reporting(D) # {} => \E k \in 1..Len(weightedSeries) : weightedSeries[k].date = D

\* Ruhleben reports 300 and Schoenerlinde 100 on 01.02.2022, Wassmannsdorf
\* nothing: (300 * 3 + 100 * 2) / (3 + 2) = 220
C13_Witness ==
  /\ IsWeightedCall
  /\ Reporting(Day_01_02_2022) = {1, 2}
  /\ \E k \in 1..Len(weightedSeries) :
       /\ weightedSeries[k].date = Day_01_02_2022
       /\ weightedSeries[k].value = Int2Num(220)

(***************************************************************************)
(* C14  Weighted bound: with positive population weights, the value of     *)
(* every point of the computeWeightedSeries output lies between the        *)
(* minimum and the maximum of the values that the stations have at the     *)
(* date of the point.                                                      *)
(***************************************************************************)
\* the values of all points of all series at date D
ValuesAt(D) == UNION {{datasets[i][k].value : k \in PointsAt(i, D)} : i \in Plants}

PositiveWeights == \A i \in Plants : WeightOf(i) > 0

C14_WeightedValueWithinStationValues ==
  (IsWeightedCall /\ PositiveWeights) =>
    \A k \in 1..Len(weightedSeries) :
      \E lo \in ValuesAt(weightedSeries[k].date), hi \in ValuesAt(weightedSeries[k].date) :
        LessEq(lo, weightedSeries[k].value) /\ LessEq(weightedSeries[k].value, hi)

(***************************************************************************)
(* C15  The output of computeWeightedSeries is strictly ascending in date, *)
(* whatever the order of the points within the three input series: each    *)
(* point is later than its predecessor and no date occurs twice.           *)
(***************************************************************************)
C15_WeightedSeriesStrictlyAscending ==
  IsWeightedCall =>
    \A k \in 1..(Len(weightedSeries) - 1) :
      weightedSeries[k].date < weightedSeries[k + 1].date

\* an input series lists a later date before an earlier one, and the output
\* has points of both
C15_Witness ==
  /\ IsWeightedCall
  /\ Len(datasets[1]) = 2
  /\ datasets[1][1].date > datasets[1][2].date
  /\ \E k \in 1..Len(weightedSeries) : weightedSeries[k].date = datasets[1][1].date
  /\ \E k \in 1..Len(weightedSeries) : weightedSeries[k].date = datasets[1][2].date
  /\ Len(datasets[2]) = 1
  /\ datasets[2][1].date = Day_15_12_2021

(***************************************************************************)
(* C16  computeWeightedAverage never divides by a zero weight total: a     *)
(* date at which no station reports a value gives no point, and no point   *)
(* of the computeWeightedSeries output carries NaN or an infinity.         *)
(***************************************************************************)
C16_NoNaNOrInfinityInWeightedSeries ==
  IsWeightedCall =>
    /\ \A D \in SeriesDates :
         Reporting(D) = {} => ~\E k \in 1..Len(weightedSeries) : weightedSeries[k].date = D
    /\ \A k \in 1..Len(weightedSeries) : IsFiniteNum(weightedSeries[k].value)

(***************************************************************************)
(* Two calls of filterDataByStation in a row on one dataset                *)
(***************************************************************************)

\* return { ...d, extraction_date: parsedDate }: the entry that is returned
\* is a new object, the entry d of rawData is left as it was
EntryAfterCall_assigned(d) ==
  IF DateParses(d)
    THEN [d EXCEPT !.extraction_date = toISOString(timeParse(d.extraction_date))]
    ELSE d

EntryAfterCall(d) == d

\* rawData after filterDataByStation(rawData, station) has returned
RawDataAfterCall(raw) ==
  IF raw.isArray THEN Arr(Map(raw.items, EntryAfterCall)) ELSE raw

\* the datasets of up to MaxSamples samples, and the values that are not arrays
DatasetsOfSamples ==
  {Arr(ds) : ds \in SeqsUpTo(Samples, MaxSamples)}
    \cup {NotArr("null"), NotArr("undefined"), NotArr("object")}

InitTwice ==
  /\ rawData \in DatasetsOfSamples
  /\ call = NoCall
  /\ stations = <<>>
  /\ points = <<>>
  /\ SeriesIdle
  /\ previous = NoPrevious
  /\ AppIdle
  /\ FetchIdle

\* filterDataByStation(rawData, station), the call before it remembered
FilterDataByStationAgain ==
  \E station \in StationArgs :
    /\ call' = Called("filterDataByStation", "current", station,
                      filterDataByStation(rawData, station))
    /\ points' = filterDataByStation(rawData, station).ret
    /\ rawData' = RawDataAfterCall(rawData)
    /\ previous' = [fn |-> call.fn, station |-> call.station,
                    points |-> points, rawData |-> rawData]
    /\ UNCHANGED <<stations, seriesVars, appVars, fetchVars>>

NextTwice ==
  \/ FilterDataByStationAgain

SpecTwice == InitTwice /\ [][NextTwice]_vars

(***************************************************************************)
(* C17  Determinism: two invocations of filterDataByStation with the same  *)
(* raw dataset and the same station return equal sequences (same length,   *)
(* same dates, values, mins and maxes in the same order), and the first    *)
(* invocation leaves the raw dataset unchanged.                            *)
(***************************************************************************)
IsSecondCall ==
  /\ call.fn = "filterDataByStation"
  /\ previous.fn = "filterDataByStation"
  /\ previous.station = call.station

RECURSIVE ValuesOfResults(_)
ValuesOfResults(rs) ==
  IF rs = <<>> THEN <<>>
  ELSE ValuesOfResults(SubSeq(rs, 1, Len(rs) - 1)) \o ValidValues(rs[Len(rs)])

IndividualValues(d) == ValuesOfResults(SelectSeq(ResultsOrEmpty(d), NameRelevant))

C18_MinMaxOfIndividualValues ==
  (IsFilterCall /\ Len(points) = Cardinality(Retained(call.station))) =>
    \A k \in 1..Len(points) :
      /\ IsLeastOf(points[k].min,
                   IndividualValues(rawData.items[Kth(Retained(call.station), k)]))
      /\ IsGreatestOf(points[k].max,
                      IndividualValues(rawData.items[Kth(Retained(call.station), k)]))

(***************************************************************************)
(* loadData.ts, chart.ts and main.ts: the application                      *)
(*                                                                         *)
(* In this state machine rawData, datasets and points are the module       *)
(* variables rawDataCurrent, allProcessedCurrent and filteredDataCurrent   *)
(* of main.ts (the constants rawData and allProcessed of the callback are  *)
(* assigned to them once and never change), stations and weightedSeries    *)
(* are the constants stations and weightedCurve of the callback, and       *)
(* globalMax is the upper end of the y-domain that createYScale gave the   *)
(* chart drawn last, before d3's nice().                                   *)
(***************************************************************************)

Wassmannsdorf == "Klaerwerk Wassmannsdorf"

STATION_WEIGHTED_OPTION == "Berlin Trend (excl. BER)"

\* the samples of the response bodies: of the three plants and of BER, with
\* different values, out of date order, one with a date that does not parse,
\* one without a SARS-CoV-2 result
BodySamples ==
  {RawDataEntry(Ruhleben, D_03_02_2022, Arr(<<T_N1>>)),
   RawDataEntry(Ruhleben, D_iso, Arr(<<T_N2>>)),
   RawDataEntry(Schoenerlinde, D_01_02_2022, Arr(<<T_dPCR>>)),
   RawDataEntry(Wassmannsdorf, D_01_02_2022, Arr(<<T_Mixed>>)),
   RawDataEntry(Wassmannsdorf, D_03_02_2022, Arr(<<T_PMMoV>>)),
   RawDataEntry(BER, D_01_02_2022, Arr(<<T_N1, T_N2>>))}

\* what fetch("/data/data.json") can do: fetched tells whether its promise is
\* fulfilled with a response (it is rejected on a network error), ok is
\* response.ok, json tells whether response.json() parses, body is the parsed
\* document
Responses ==
  {[fetched |-> TRUE, ok |-> ok, json |-> TRUE, body |-> Arr(ds)] :
     ok \in BOOLEAN, ds \in SeqsUpTo(BodySamples, MaxSamples)}
    \cup {[fetched |-> TRUE, ok |-> ok, json |-> TRUE, body |-> NotArr(kind)] :
            ok \in BOOLEAN, kind \in {"null", "object"}}
    \cup {[fetched |-> TRUE, ok |-> ok, json |-> FALSE, body |-> NotArr("undefined")] :
            ok \in BOOLEAN}
    \cup {NoResponse}

\* a version that returns whatever document was parsed
loadData_anyDocument(resp) ==
  IF ~resp.fetched THEN [resolved |-> FALSE, rawData |-> NotArr("undefined")]
  ELSE IF ~resp.ok THEN [resolved |-> FALSE, rawData |-> NotArr("undefined")]
  ELSE IF ~resp.json THEN [resolved |-> FALSE, rawData |-> NotArr("undefined")]
  ELSE [resolved |-> TRUE, rawData |-> resp.body]

\* loadData(): rejects when fetch rejects, when the response is not OK, when its body is not
\* JSON and when the document is not an array; else resolves with it
loadData(resp) ==
  IF ~resp.fetched THEN [resolved |-> FALSE, rawData |-> NotArr("undefined")]
  ELSE IF ~resp.ok THEN [resolved |-> FALSE, rawData |-> NotArr("undefined")]
  ELSE IF ~resp.json THEN [resolved |-> FALSE, rawData |-> NotArr("undefined")]
  ELSE IF ~resp.body.isArray THEN [resolved |-> FALSE, rawData |-> NotArr("undefined")]
  ELSE [resolved |-> TRUE, rawData |-> resp.body]

\* stations.indexOf(name) as a position 1..Len, 0 standing for -1
indexOf(seq, x) ==
  IF \E i \in 1..Len(seq) : seq[i] = x
    THEN CHOOSE i \in 1..Len(seq) : seq[i] = x /\ \A j \in 1..(i - 1) : seq[j] # x
    ELSE 0

\* stations.map((station) => filterDataByStation(rawData, station))
AllProcessedOf(raw, sts) ==
  LET Processed(station) == filterDataByStation(raw, station).ret
  IN  Map(sts, Processed)

\* allProcessed[stations.indexOf(name)] is undefined for a plant that is not
\* among the stations, and computeWeightedSeries then throws a TypeError on
\* series.forEach
HasAllPlants(sts) ==
  indexOf(sts, Ruhleben) # 0 /\ indexOf(sts, Schoenerlinde) # 0 /\ indexOf(sts, Wassmannsdorf) # 0

WeightedCurveOf(sts, allProcessed) ==
  computeWeightedSeries(allProcessed[indexOf(sts, Ruhleben)],
                        allProcessed[indexOf(sts, Schoenerlinde)],
                        allProcessed[indexOf(sts, Wassmannsdorf)])

\* createYScale(allProcessed, height): the domain [0, globalMax], its upper end
createYScale(allProcessed) == getGlobalMaxFromProcessedDatasets(allProcessed)

\* a version that scales the y-axis to the series that is drawn
drawChart_scaledToData(data, raw, allProcessed) == createYScale(<<data>>)

\* drawChart({containerSelector, data, rawData, allProcessed}): the upper end
\* of the y-domain of the chart
drawChart(data, raw, allProcessed) == createYScale(allProcessed)

InitApp ==
  /\ rawData = Arr(<<>>)
  /\ call = NoCall
  /\ stations = <<>>
  /\ points = <<>>
  /\ SeriesIdle
  /\ previous = NoPrevious
  /\ response = NoResponse
  /\ phase = "loading"
  /\ selected = ""
  /\ drawn = {}
  /\ coreCalls = {}
  /\ errorMessage = ""
  /\ chartData = <<>>
  /\ FetchIdle

\* loadData(), with the response that fetch gets
LoadData ==
  /\ phase = "loading"
  /\ \E resp \in Responses :
       /\ response' = resp
       /\ phase' = IF loadData(resp).resolved THEN "resolved" ELSE "loadRejected"
  /\ UNCHANGED <<rawData, call, stations, points, seriesVars, previous, selected, drawn,
                 coreCalls, errorMessage, chartData, fetchVars>>

\* the callback of then(), when it runs to its end: stations, allProcessed
\* and weightedCurve are computed, the first chart is drawn with the weighted
\* curve, and the handlers of change and resize are attached
ThenDraws(raw) ==
  /\ rawData' = raw
  /\ stations' = getStations(raw).ret
  /\ datasets' = AllProcessedOf(raw, stations')
  /\ weightedSeries' = WeightedCurveOf(stations', datasets')
  /\ points' = weightedSeries'
  /\ selected' = STATION_WEIGHTED_OPTION
  /\ chartData' = points'
  /\ globalMax' = drawChart(chartData', rawData', datasets')
  /\ drawn' = {<<selected', globalMax'>>}
  /\ phase' = "ready"

\* the callback of then() when it throws: the promise of then() is rejected
ThenRejects(called) ==
  /\ phase' = "thenRejected"
  /\ coreCalls' = called
  /\ UNCHANGED <<rawData, stations, points, seriesVars, selected, drawn, chartData>>

\* the functions of processData.ts called up to computeWeightedSeries
CalledByThen(raw) ==
  {"getStations", "computeWeightedSeries"}
    \cup (IF raw.items = <<>> THEN {} ELSE {"filterDataByStation"})

\* the callback of then() for the value raw that loadData resolved with:
\* rawData.map of line 37 throws for a value that is not an array, before
\* any function of processData.ts is called; computeWeightedSeries throws
\* when one of the three plants is not among the stations
ThenWith(raw) ==
  IF ~raw.isArray THEN ThenRejects({})
  ELSE IF ~HasAllPlants(getStations(raw).ret) THEN ThenRejects(CalledByThen(raw))
  ELSE ThenDraws(raw) /\ coreCalls' = CalledByThen(raw)

Then ==
  /\ phase = "resolved"
  /\ ThenWith(loadData(response).rawData)
  /\ UNCHANGED <<call, previous, response, errorMessage, fetchVars>>

\* index.html holds the element with id "error-message"
HasErrorMessageElem == TRUE

S_FailedToLoadData == "Failed to load data."

\* a version whose message names the error
CatchMessage_ofError(elem, current) == IF elem THEN "API response is not an array" ELSE current

\* if (errorMessageElem) errorMessageElem.textContent = "Failed to load data."
CatchMessage(elem, current) == IF elem THEN S_FailedToLoadData ELSE current

\* the callback of catch(): "Failed to load data." is shown
Catch ==
  /\ phase \in {"loadRejected", "thenRejected"}
  /\ phase' = "failed"
  /\ errorMessage' = CatchMessage(HasErrorMessageElem, errorMessage)
  /\ UNCHANGED <<rawData, call, stations, points, seriesVars, previous, response,
                 selected, drawn, coreCalls, chartData, fetchVars>>

\* the change handler of the dropdown, with the series it draws
ChangeDraws(option, filtered) ==
  /\ selected' = option
  /\ points' = filtered
  /\ chartData' = filtered
  /\ globalMax' = drawChart(chartData', rawData, datasets)
  /\ drawn' = drawn \cup {<<selected', globalMax'>>}

\* select.on("change", ...): the weighted option, or one of the stations
Change ==
  /\ phase = "ready"
  /\ \E k \in 0..Len(stations) :
       IF k = 0
         THEN /\ ChangeDraws(STATION_WEIGHTED_OPTION, weightedSeries)
              /\ UNCHANGED coreCalls
         ELSE /\ ChangeDraws(stations[k], filterDataByStation(rawData, stations[k]).ret)
              /\ coreCalls' = coreCalls \cup {"filterDataByStation"}
  /\ UNCHANGED <<rawData, call, stations, datasets, weightedSeries, previous, response,
                 phase, errorMessage, fetchVars>>

\* a version that draws the series of the first chart again
ResizeData_initial(filteredDataCurrent, weightedCurve) == weightedCurve

\* data: filteredDataCurrent, in the listener of resize
ResizeData(filteredDataCurrent, weightedCurve) == filteredDataCurrent

\* window.addEventListener("resize", ...)
Resize ==
  /\ phase = "ready"
  /\ chartData' = ResizeData(points, weightedSeries)
  /\ globalMax' = drawChart(chartData', rawData, datasets)
  /\ drawn' = drawn \cup {<<selected, globalMax'>>}
  /\ UNCHANGED <<rawData, call, stations, points, datasets, weightedSeries, previous,
                 response, phase, selected, coreCalls, errorMessage, fetchVars>>

NextApp ==
  \/ LoadData
  \/ Then
  \/ Catch
  \/ Change
  \/ Resize

SpecApp == InitApp /\ [][NextApp]_vars

(***************************************************************************)
(* C19  Global y-axis scaling: after any sequence of dropdown changes and  *)
(* resizes, the upper bound of the y-axis of the chart is the same for     *)
(* every option that was drawn (each station and the weighted Berlin       *)
(* trend): the bound computed from the aggregated series of all stations   *)
(* of the loaded dataset, not from the series that is drawn.               *)
(***************************************************************************)
BoundOfAllStations ==
  getGlobalMaxFromProcessedDatasets(AllProcessedOf(rawData, getStations(rawData).ret))

C19_SameYBoundForEveryOption ==
  phase = "ready" =>
    /\ \A e \in drawn : e[2] = BoundOfAllStations
    /\ \A e1 \in drawn, e2 \in drawn : e1[2] = e2[2]
    /\ globalMax = BoundOfAllStations

\* the weighted trend and two stations have been drawn, one of them a station
\* whose own series would give another bound
C19_Witness ==
  /\ phase = "ready"
  /\ Cardinality({e[1] : e \in drawn}) >= 3
  /\ \E e \in drawn : e[1] = STATION_WEIGHTED_OPTION
  /\ \E e \in drawn :
       /\ e[1] # STATION_WEIGHTED_OPTION
       /\ getGlobalMaxFromProcessedDatasets(<<filterDataByStation(rawData, e[1]).ret>>) # e[2]

(***************************************************************************)
(* C20  getStations, filterDataByStation and computeWeightedSeries are     *)
(* called by the application only after loadData has resolved with an      *)
(* array: when the HTTP response is not OK or the parsed body is not an    *)
(* array, loadData rejects and none of them is ever called.                *)
(***************************************************************************)
GoodResponse == response.ok /\ response.json /\ response.body.isArray

C20_CoreCalledOnlyAfterArrayLoaded ==
  /\ coreCalls # {} => (GoodResponse /\ phase \in {"ready", "thenRejected", "failed"})
  /\ (phase # "loading" /\ ~GoodResponse) =>
       (phase \in {"loadRejected", "failed"} /\ coreCalls = {})

\* the response was not OK although its body was an array of samples
C20_Witness ==
  /\ phase = "failed"
  /\ ~response.ok
  /\ response.body.isArray
  /\ Len(response.body.items) = 3
  /\ coreCalls = {}

\* the document was an object, not an array
C20_WitnessNoArray ==
  /\ phase = "failed"
  /\ response.ok
  /\ response.json
  /\ ~response.body.isArray
  /\ coreCalls = {}

(***************************************************************************)
(* The application with its scheduling: the callback of catch() runs once  *)
(* the promise it is attached to is rejected. The fetch need not settle,   *)
(* and change and resize events need not happen.                           *)
(***************************************************************************)
SpecAppLive == SpecApp /\ WF_vars(Catch)

(***************************************************************************)
(* C21  Whenever loading the data fails (fetch rejects, the status is not  *)
(* OK, or the body is not an array), the application ends in an error      *)
(* state: the message "Failed to load data." is the text of the error      *)
(* element and drawChart has never been called.                            *)
(***************************************************************************)
LoadFailed == phase = "loadRejected"

LoadErrorShown ==
  /\ phase = "failed"
  /\ errorMessage = "Failed to load data."
  /\ drawn = {}
  /\ chartData = <<>>

C21_LoadFailureEndsInErrorState == LoadFailed ~> []LoadErrorShown

\* fetch was rejected and the message is shown
C21_Witness ==
  /\ ~response.fetched
  /\ LoadErrorShown

\* the status was not OK although the body was an array of samples
C21_WitnessNotOk ==
  /\ response.fetched /\ ~response.ok /\ response.body.isArray
  /\ Len(response.body.items) = 2
  /\ LoadErrorShown

(***************************************************************************)
(* validateForChart.js: the validation that "npm test" runs on             *)
(* public/data/data.json before the chart test                             *)
(***************************************************************************)

\* parseNumber(value): parseFloat(value.replace(',', '.'))
parseNumber(value) == parseFloat(replace(value, ",", "."))

\* the filter on sample.results
IsChartRelevantResult(r) ==
  /\ r.name.t = "string"
  /\ includes(r.name.s, S_SARS_CoV_2)
  /\ ~includes(r.name.s, S_E_gene)
  /\ r.parameter.isArray

\* the filter on result.parameter: copyValues
IsCopyValue(p) ==
  /\ ~p.isNull
  /\ p.name.t = "string"
  /\ startsWith(p.name.s, S_copy_number_)
  /\ p.result.t = "string"

\* the body of the loop over relevantResults does not throw for copyValues
CopyValuesPass(copyValues) ==
  /\ Len(copyValues) # 0
  /\ \A i \in 1..Len(copyValues) : ~isNaN(parseNumber(copyValues[i].result.s))

\* validateChartRelevant(sample, index) returns (TRUE) or throws (FALSE)
validateChartRelevant(sample) ==
  LET relevantResults == Filter(ResultsOrEmpty(sample), IsChartRelevantResult)
  IN  \A k \in 1..Len(relevantResults) :
        CopyValuesPass(Filter(relevantResults[k].parameter.items, IsCopyValue))

\* the script: "Chart validation passed" (TRUE) or "Chart validation failed"
validateForChart(data) ==
  /\ data.isArray
  /\ Len(data.items) # 0
  /\ \A i \in 1..Len(data.items) : validateChartRelevant(data.items[i])

(***************************************************************************)
(* C22  After a successful load of a non-empty valid dataset the chart is  *)
(* drawn once without any user interaction, with the series of the default *)
(* option, the weighted Berlin trend. Stated on the result of the then     *)
(* callback: once it has run, the application is ready, shows no error,    *)
(* and before any event exactly one chart, that of the weighted trend,     *)
(* has been drawn.                                                         *)
(***************************************************************************)
LoadedValid ==
  /\ GoodResponse
  /\ validateForChart(response.body)
  /\ phase \notin {"loading", "resolved"}

C22_ChartDrawnAfterValidLoad ==
  LoadedValid =>
    /\ phase = "ready"
    /\ errorMessage = ""
    /\ \E e \in drawn : e[1] = STATION_WEIGHTED_OPTION
    /\ selected = STATION_WEIGHTED_OPTION => chartData = weightedSeries

\* a valid dataset with samples of all three plants: the chart is drawn
C22_Drawn ==
  /\ LoadedValid
  /\ phase = "ready"
  /\ Cardinality(drawn) = 1
  /\ chartData = weightedSeries
  /\ Len(chartData) = 2

(***************************************************************************)
(* fetchLiveData.js: the incremental fetch that merges new records of the  *)
(* API into public/data/data.json                                          *)
(***************************************************************************)

\* the position of the first sep in s from position i on, Len(s) + 1 if none
RECURSIVE IndexFrom(_, _, _)
IndexFrom(s, sep, i) ==
  IF i > Len(s) \/ s[i] = sep THEN i ELSE IndexFrom(s, sep, i + 1)

\* s.split(sep) for a one-character sep
RECURSIVE split(_, _)
split(s, sep) ==
  IF IndexFrom(s, sep, 1) > Len(s) THEN <<s>>
  ELSE <<SubSeq(s, 1, IndexFrom(s, sep, 1) - 1)>>
         \o split(Slice(s, IndexFrom(s, sep, 1) + 1), sep)

AllDigits(s) == \A i \in 1..Len(s) : IsDigit(s[i])

\* new Date(`${year}-${month}-${day}`) for the date-only form YYYY-MM-DD of
\* ECMAScript: the day number of the date (midnight UTC), NoDate for an
\* Invalid Date. A part that is undefined gives the text "undefined".
DateOfYMD(year, month, day) ==
  IF /\ Len(year) = 4 /\ Len(month) = 2 /\ Len(day) = 2
     /\ AllDigits(year) /\ AllDigits(month) /\ AllDigits(day)
     /\ DigitsValue(month, 1, 3) \in 1..12
     /\ DigitsValue(day, 1, 3) \in 1..DaysInMonth(DigitsValue(year, 1, 5), DigitsValue(month, 1, 3))
    THEN localDate(DigitsValue(year, 1, 5), DigitsValue(month, 1, 3) - 1, DigitsValue(day, 1, 3))
    ELSE NoDate

S_undefined == <<"u", "n", "d", "e", "f", "i", "n", "e", "d">>

\* the k-th element of the destructured array, "undefined" when there is none
PartOrUndefined(parts, k) == IF k <= Len(parts) THEN parts[k] ELSE S_undefined

\* parseCustomDate(dateStr): const [day, month, year] = dateStr.split(".")
parseCustomDate(dateStr) ==
  DateOfYMD(PartOrUndefined(split(dateStr, "."), 3),
            PartOrUndefined(split(dateStr, "."), 2),
            PartOrUndefined(split(dateStr, "."), 1))

\* addOneDay(date): an Invalid Date stays invalid
addOneDay(date) == IF date = NoDate THEN NoDate ELSE date + 1

\* a record of the API, with the two fields the script reads
Record(sample_number, extraction_date) ==
  [sample_number |-> sample_number, extraction_date |-> extraction_date]

\* the compare function (a, b) => parseCustomDate(a.extraction_date) -
\* parseCustomDate(b.extraction_date) is consistent on data: no date is invalid
\* (the difference with an Invalid Date is NaN)
AllDatesValid(data) ==
  \A i \in 1..Len(data) : parseCustomDate(data[i].extraction_date) # NoDate

\* insertion of x after the last element that is not later than x
RECURSIVE InsertByDate(_, _)
InsertByDate(sorted, x) ==
  IF sorted = <<>> THEN <<x>>
  ELSE IF parseCustomDate(x.extraction_date)
            < parseCustomDate(sorted[Len(sorted)].extraction_date)
    THEN Append(InsertByDate(SubSeq(sorted, 1, Len(sorted) - 1), x), sorted[Len(sorted)])
    ELSE Append(sorted, x)

\* the stable sort ascending by date
RECURSIVE SortedByDate(_)
SortedByDate(data) ==
  IF data = <<>> THEN <<>>
  ELSE InsertByDate(SortedByDate(SubSeq(data, 1, Len(data) - 1)), data[Len(data)])

\* x put at each position of seq
InsertedAnywhere(seq, x) ==
  {SubSeq(seq, 1, k) \o <<x>> \o SubSeq(seq, k + 1, Len(seq)) : k \in 0..Len(seq)}

\* the orders of the elements of data
RECURSIVE OrdersOf(_)
OrdersOf(data) ==
  IF data = <<>> THEN {<<>>}
  ELSE UNION {InsertedAnywhere(o, data[Len(data)]) :
                o \in OrdersOf(SubSeq(data, 1, Len(data) - 1))}

\* [...data].sort(by date, ascending): the stable sort when the compare
\* function is consistent; else the order is implementation-defined
\* (ECMAScript, Array.prototype.sort)
SortOutcomes(data) ==
  IF AllDatesValid(data) THEN {SortedByDate(data)} ELSE OrdersOf(data)

\* findLatestDate(data): null (NoName) for no data, else the extraction_date
\* of the first element of the descending sort; with an invalid date any
\* element can come first
findLatestDate(data) ==
  IF data = <<>> THEN {NoName}
  ELSE IF AllDatesValid(data)
    THEN {Str(SortedByDate(data)[Len(data)].extraction_date)}
    ELSE {Str(data[i].extraction_date) : i \in 1..Len(data)}

\* readExistingData(): the array of the file, [] for a file that is missing,
\* is no JSON or is no array
readExistingData(file) == IF file.isArray THEN file.items ELSE <<>>

\* a version that keeps every incoming record
filterDuplicates_keepAll(existing, incoming) == incoming

\* filterDuplicates(existing, incoming)
filterDuplicates(existing, incoming) ==
  LET IsNew(newEntry) ==
        ~\E k \in 1..Len(existing) :
            /\ existing[k].sample_number = newEntry.sample_number
            /\ existing[k].extraction_date = newEntry.extraction_date
  IN  Filter(incoming, IsNew)

\* new Date("2022-02-01"), the start when there is no latest date
Day_Default == localDate(2022, 1, 1)

\* latestDateStr ? parseCustomDate(latestDateStr) : new Date("2022-02-01")
\* (null and the empty string are falsy)
LatestDate(latestDateStr) ==
  IF latestDateStr.t # "string" \/ latestDateStr.s = <<>> THEN Day_Default
  ELSE parseCustomDate(latestDateStr.s)

\* extraction_date values of the records: two days, and one that is no date
D_abc == <<"a", "b", "c">>

\* the records of the file and of the API: sample "S1" on two days and with
\* the malformed date, sample "S2" on the later day
RecordPool ==
  {Record("S1", D_01_02_2022), Record("S1", D_03_02_2022), Record("S1", D_abc),
   Record("S2", D_03_02_2022)}

MaxFile == 2

MaxApi == 2

\* public/data/data.json before a run: missing or no array, or an array of records
DataFiles ==
  {NotArr("undefined")} \cup {Arr(rs) : rs \in SeqsUpTo(RecordPool, MaxFile)}

\* what fetchData does: it throws (the request fails or the status is not
\* OK), or it returns json.body, [] when that is no array
FetchOutcomes ==
  {[threw |-> TRUE, newData |-> <<>>]}
    \cup {[threw |-> FALSE, newData |-> rs] : rs \in SeqsUpTo(RecordPool, MaxApi)}

\* new Date() of a run, as a day number: the default start day, and two days
\* after the later day of the records
Todays == {Day_Default, Day_03_02_2022 + 2}

\* the run as it ends: what was logged, and the file
EndRun(outcome, existing, fetched, today, file) ==
  /\ fetchRun' = [outcome |-> outcome, existing |-> existing, newData |-> fetched,
                  today |-> today]
  /\ dataFile' = file

\* lines 129-135: the file is written with the sorted records
WriteCombined(existing, fetched, today, unique) ==
  \E combined \in SortOutcomes(existing \o unique) :
    EndRun("written", existing, fetched, today, Arr(combined))

\* lines 121-127, with the outcome of fetchData
AfterFetch(existing, today, fetched) ==
  IF fetched.threw THEN EndRun("failed", existing, <<>>, today, dataFile)
  ELSE IF filterDuplicates(existing, fetched.newData) = <<>>
    THEN EndRun("noNewData", existing, fetched.newData, today, dataFile)
    ELSE WriteCombined(existing, fetched.newData, today,
                       filterDuplicates(existing, fetched.newData))

\* lines 112-121, with the latest date: start > today ends the run; an
\* invalid start makes formatDate throw a RangeError (toISOString)
AfterLatest(existing, today, start) ==
  IF start # NoDate /\ start > today THEN EndRun("noNewDates", existing, <<>>, today, dataFile)
  ELSE IF start = NoDate THEN EndRun("failed", existing, <<>>, today, dataFile)
  ELSE \E fetched \in FetchOutcomes : AfterFetch(existing, today, fetched)

\* fetchIncremental(): one run of the script
FetchIncremental ==
  /\ Len(readExistingData(dataFile)) <= MaxFile
  /\ \E today \in Todays :
       \E latestDateStr \in findLatestDate(readExistingData(dataFile)) :
         AfterLatest(readExistingData(dataFile), today, addOneDay(LatestDate(latestDateStr)))
  /\ UNCHANGED <<rawData, call, stations, points, seriesVars, previous, appVars>>

InitFetch ==
  /\ rawData = Arr(<<>>)
  /\ call = NoCall
  /\ stations = <<>>
  /\ points = <<>>
  /\ SeriesIdle
  /\ previous = NoPrevious
  /\ AppIdle
  /\ dataFile \in DataFiles
  /\ fetchRun = NoRun

NextFetch == FetchIncremental

SpecFetch == InitFetch /\ [][NextFetch]_vars

(***************************************************************************)
(* C23  Duplicate removal in the incremental fetch: if the data file holds *)
(* no two records with the same (sample_number, extraction_date) before a  *)
(* run of fetchIncremental, it holds no two such records after the run,    *)
(* whatever records the API returned (the same record twice included).     *)
(***************************************************************************)
SameKey(a, b) ==
  a.sample_number = b.sample_number /\ a.extraction_date = b.extraction_date

NoDuplicateKeys(records) ==
  \A i \in 1..Len(records), j \in 1..Len(records) :
    i < j => ~SameKey(records[i], records[j])

HasRun == fetchRun.outcome # "none"

C23_NoDuplicatesAfterRun ==
  (HasRun /\ NoDuplicateKeys(fetchRun.existing))
    => NoDuplicateKeys(readExistingData(dataFile))

\* duplicates are removed against the file: a record of the file came again
C23_RemovedAgainstFile ==
  /\ fetchRun.outcome = "written"
  /\ NoDuplicateKeys(fetchRun.existing)
  /\ NoDuplicateKeys(fetchRun.newData)
  /\ \E i \in 1..Len(fetchRun.newData), k \in 1..Len(fetchRun.existing) :
       SameKey(fetchRun.newData[i], fetchRun.existing[k])
  /\ NoDuplicateKeys(dataFile.items)

(***************************************************************************)
(* C24  The incremental fetch merges only new records: every record of the *)
(* data file before a run is still in it after the run, every added record *)
(* was absent before, and whenever the file is written its records are in  *)
(* ascending order of extraction_date.                                     *)
(***************************************************************************)
CountOf(records, r) == Cardinality({i \in 1..Len(records) : records[i] = r})

RecordsOf(records) == {records[i] : i \in 1..Len(records)}

\* no record with a date comes before a record with an earlier date
AscendingByDate(records) ==
  \A i \in 1..Len(records), j \in 1..Len(records) :
    (/\ i < j
     /\ parseCustomDate(records[i].extraction_date) # NoDate
     /\ parseCustomDate(records[j].extraction_date) # NoDate)
      => parseCustomDate(records[i].extraction_date)
           <= parseCustomDate(records[j].extraction_date)

C24_MergesOnlyNewRecordsInDateOrder ==
  HasRun =>
    /\ \A r \in RecordsOf(fetchRun.existing) :
         CountOf(readExistingData(dataFile), r) >= CountOf(fetchRun.existing, r)
    /\ \A r \in RecordsOf(readExistingData(dataFile)) :
         CountOf(readExistingData(dataFile), r) > CountOf(fetchRun.existing, r)
           => ~\E k \in 1..Len(fetchRun.existing) : SameKey(fetchRun.existing[k], r)
    /\ fetchRun.outcome = "written" => AscendingByDate(dataFile.items)

\* a file out of date order is written in date order with the new records
C24_MergedInOrder ==
  /\ fetchRun.outcome = "written"
  /\ Len(fetchRun.existing) = 2
  /\ ~AscendingByDate(fetchRun.existing)
  /\ Len(dataFile.items) = 3
  /\ AllDatesValid(dataFile.items)
  /\ AscendingByDate(dataFile.items)

(***************************************************************************)
(* C25  Within a relevant test result a parameter contributes a value iff  *)
(* its name begins with "copy_number_", its result is a number or a        *)
(* string, and the comma-normalized result parses to a number. Every other *)
(* parameter (other name, absent name, other result type, unparseable      *)
(* string) is discarded without aborting and without changing the          *)
(* test-level mean of the remaining parameters.                            *)
(***************************************************************************)
ParsedResult(result) ==
  IF result.t = "number" THEN result ELSE parseFloat(replace(result.s, ",", "."))

ParameterContributes(p) ==
  /\ ~p.isNull
  /\ p.name.t = "string"
  /\ Len(p.name.s) >= 12
  /\ SubSeq(p.name.s, 1, 12) = S_copy_number_
  /\ p.result.t \in {"number", "string"}
  /\ ParsedResult(p.result) # NaN

ContributedValue(p) == ParsedResult(p.result)

\* the result with its contributing parameters only
ContributingOnly(r) ==
  IF r.parameter.isArray
    THEN [r EXCEPT !.parameter = Arr(SelectSeq(r.parameter.items, ParameterContributes))]
    ELSE r

ContributingOnlyOf(d) ==
  IF d.results.isArray
    THEN [d EXCEPT !.results = Arr(Map(d.results.items, ContributingOnly))]
    ELSE d

ContributingParametersOnly == Arr(Map(rawData.items, ContributingOnlyOf))

C25_OnlyCopyNumberParametersContribute ==
  IsFilterCall =>
    /\ ~call.threw
    /\ \A i \in 1..Len(rawData.items) :
         \A j \in 1..Len(ResultsOrEmpty(rawData.items[i])) :
           IsRelevantResult(ResultsOrEmpty(rawData.items[i])[j]) =>
             ResultValues(ResultsOrEmpty(rawData.items[i])[j].parameter.items)
               = Map(SelectSeq(ResultsOrEmpty(rawData.items[i])[j].parameter.items,
                               ParameterContributes),
                     ContributedValue)
    /\ points = Recompute(ContributingParametersOnly)

\* a result with two contributing parameters, one unparseable string and one
\* parameter of another name: the point is the mean of the two
C25_Witness ==
  /\ IsFilterCall
  /\ call.src = "current"
  /\ call.station = Ruhleben
  /\ Len(rawData.items) = 1
  /\ rawData.items[1].results = Arr(<<T_Mixed>>)
  /\ Len(points) = 1
  /\ points[1].value = Int2Num(200)

(***************************************************************************)
(* C26  In computeWeightedSeries a station with a point of value exactly 0 *)
(* at a date counts as reporting: its weight is in the weight total and it *)
(* pulls the composite towards 0. A station with no point at the date      *)
(* contributes neither to the sum nor to the weight total: absence is      *)
(* never treated as a value of 0. Stated for the dates at which every      *)
(* point carries a finite number.                                          *)
(***************************************************************************)
HasPointAt(i, D) == PointsAt(i, D) # {}

FiniteOrAbsentAt(D) ==
  \A i \in Plants : HasPointAt(i, D) => IsFiniteNum(FirstAt(i, D).value)

ValueTimesWeight(i, D) ==
  IF HasPointAt(i, D) THEN NumMul(FirstAt(i, D).value, Int2Num(WeightOf(i))) ELSE Int2Num(0)

WeightIfPoint(i, D) == IF HasPointAt(i, D) THEN WeightOf(i) ELSE 0

CompositeAt(D) ==
  NumDiv(NumAdd(NumAdd(ValueTimesWeight(1, D), ValueTimesWeight(2, D)), ValueTimesWeight(3, D)),
         Int2Num(WeightIfPoint(1, D) + WeightIfPoint(2, D) + WeightIfPoint(3, D)))

C26_ZeroReportsAbsenceDoesNot ==
  IsWeightedCall =>
    \A D \in SeriesDates :
      FiniteOrAbsentAt(D) =>
        \E k \in 1..Len(weightedSeries) :
          weightedSeries[k].date = D /\ weightedSeries[k].value = CompositeAt(D)

\* Ruhleben reports 300, Schoenerlinde 100 and Wassmannsdorf 0 on 01.02.2022:
\* (300 * 3 + 100 * 2 + 0 * 1) / (3 + 2 + 1) = 550/3, below the 220 of the
\* two alone
C26_Witness ==
  /\ IsWeightedCall
  /\ \A i \in Plants : HasPointAt(i, Day_01_02_2022)
  /\ FirstAt(1, Day_01_02_2022).value = Int2Num(300)
  /\ FirstAt(2, Day_01_02_2022).value = Int2Num(100)
  /\ FirstAt(3, Day_01_02_2022).value = Int2Num(0)
  /\ \E k \in 1..Len(weightedSeries) :
       /\ weightedSeries[k].date = Day_01_02_2022
       /\ weightedSeries[k].value = Num(550, 3)

\* Wassmannsdorf alone reports, the value 0: the point has the value 0
C26_WitnessZeroAlone ==
  /\ IsWeightedCall
  /\ datasets[1] = <<>> /\ datasets[2] = <<>>
  /\ datasets[3] = <<ProcessedEntry(Day_01_02_2022, Int2Num(0))>>
  /\ weightedSeries = <<ProcessedEntry(Day_01_02_2022, Int2Num(0))>>

(***************************************************************************)
(* C27  With positive population weights, the set of the dates of the      *)
(* computeWeightedSeries output equals the union of the dates of the three *)
(* input sequences: no date of an input is dropped and no date absent from *)
(* all inputs is emitted.                                                  *)
(***************************************************************************)
OutputDates == {weightedSeries[k].date : k \in 1..Len(weightedSeries)}

C27_OutputDatesAreInputDates ==
  (IsWeightedCall /\ PositiveWeights) => OutputDates = SeriesDates

\* no date absent from all inputs is emitted, and every date at which the
\* first point of some station carries a number is kept
C27_DatesWithNumbersKept ==
  (IsWeightedCall /\ PositiveWeights) =>
    /\ OutputDates \subseteq SeriesDates
    /\ \A D \in SeriesDates : Reporting(D) # {} => D \in OutputDates

(***************************************************************************)
(* C28  When the input sequence of one station contains several points     *)
(* with the same date, computeWeightedSeries emits a single point for that *)
(* date and uses only the value of the first-encountered point of that     *)
(* station: later points of the same station and date have no effect on    *)
(* the output.                                                             *)
(***************************************************************************)
RECURSIVE FirstPoints(_, _)
\* the first k points of s without those whose date an earlier point has
FirstPoints(s, k) ==
  IF k = 0 THEN <<>>
  ELSE IF \E j \in 1..(k - 1) : s[j].date = s[k].date
       THEN FirstPoints(s, k - 1)
       ELSE Append(FirstPoints(s, k - 1), s[k])

RepeatedDates == {D \in SeriesDates : \E i \in Plants : Cardinality(PointsAt(i, D)) > 1}

PointsOfDate(D) == {k \in 1..Len(weightedSeries) : weightedSeries[k].date = D}

LaterPointsWithoutEffect ==
  weightedSeries = computeWeightedSeries(FirstPoints(datasets[1], Len(datasets[1])),
                                         FirstPoints(datasets[2], Len(datasets[2])),
                                         FirstPoints(datasets[3], Len(datasets[3])))

C28_SinglePointFromFirstValue ==
  IsWeightedCall =>
    /\ \A D \in RepeatedDates : Cardinality(PointsOfDate(D)) = 1
    /\ LaterPointsWithoutEffect

\* at most one point per repeated date, and later points without effect
C28_AtMostOnePointFromFirstValue ==
  IsWeightedCall =>
    /\ \A D \in RepeatedDates : Cardinality(PointsOfDate(D)) <= 1
    /\ LaterPointsWithoutEffect

\* Ruhleben has the points 300 and NaN on 01.02.2022, in this order: one
\* point of value 300
C28_FirstOfTwo ==
  /\ IsWeightedCall
  /\ datasets[1] = <<ProcessedEntry(Day_01_02_2022, Int2Num(300)),
                     EntryOfOppositeInfinities(Day_01_02_2022)>>
  /\ datasets[2] = <<>> /\ datasets[3] = <<>>
  /\ weightedSeries = <<ProcessedEntry(Day_01_02_2022, Int2Num(300))>>

(***************************************************************************)
(* C29  After any interleaving of change events of the dropdown and resize *)
(* events of the window that follows a successful load, the series passed  *)
(* to the most recent drawChart call is the series of the most recently    *)
(* selected option (of the default option if none was selected); a resize  *)
(* event never changes which series is displayed.                          *)
(***************************************************************************)
SeriesOfOption(option) ==
  IF option = STATION_WEIGHTED_OPTION
    THEN weightedSeries
    ELSE filterDataByStation(rawData, option).ret

DisplayedIsSelected == phase = "ready" => chartData = SeriesOfOption(selected)

ResizeKeepsSeries == Resize => (chartData' = chartData /\ selected' = selected)

C29_DisplayedSeriesIsSelectedOption == []DisplayedIsSelected /\ [][ResizeKeepsSeries]_vars

\* a station is selected whose series is not the weighted curve; the chart
\* shows the series of the station, before and after a resize
C29_Witness ==
  /\ phase = "ready"
  /\ selected \in {stations[k] : k \in 1..Len(stations)}
  /\ chartData = filterDataByStation(rawData, selected).ret
  /\ chartData # weightedSeries
  /\ chartData # <<>>

(***************************************************************************)
(* C30  Validation is sufficient for aggregation: for every dataset that   *)
(* validateForChart accepts, each sample with at least one relevant        *)
(* SARS-CoV-2 result and an extraction date that parses yields a point of  *)
(* filterDataByStation for its own station, with value, min and max        *)
(* present: no validated relevant sample is dropped from the chart.        *)
(***************************************************************************)
\* the positions of the samples of station st with a relevant result and a
\* date that parses
RelevantOf(st) ==
  {i \in 1..Len(rawData.items) :
     /\ rawData.items[i].measuring_point = st
     /\ DateParses(rawData.items[i])
     /\ \E j \in 1..Len(ResultsOrEmpty(rawData.items[i])) :
          IsChartRelevantResult(ResultsOrEmpty(rawData.items[i])[j])}

\* the position in points of the sample at position i: points are in the
\* order of their samples
PointIndexOf(i, st) == Cardinality({j \in RelevantOf(st) : j <= i})

HasEntryOfSample(i, st) ==
  /\ PointIndexOf(i, st) \in 1..Len(points)
  /\ points[PointIndexOf(i, st)].date = timeParse(rawData.items[i].extraction_date)

IsAggregatedPoint(pt) == IsPresent(pt.value) /\ IsPresent(pt.min) /\ IsPresent(pt.max)

C30_ValidatedSampleYieldsPoint ==
  (IsFilterCall /\ validateForChart(rawData)) =>
    /\ Len(points) = Cardinality(RelevantOf(call.station))
    /\ \A i \in RelevantOf(call.station) :
         /\ HasEntryOfSample(i, call.station)
         /\ IsAggregatedPoint(points[PointIndexOf(i, call.station)])

\* every validated relevant sample has its entry in the output
C30_ValidatedSampleHasEntry ==
  (IsFilterCall /\ validateForChart(rawData)) =>
    /\ Len(points) = Cardinality(RelevantOf(call.station))
    /\ \A i \in RelevantOf(call.station) : HasEntryOfSample(i, call.station)

\* a validated dataset of three samples of the station gives three points
C30_ThreePoints ==
  /\ IsFilterCall /\ validateForChart(rawData)
  /\ Cardinality(RelevantOf(call.station)) = 3
  /\ Len(points) = 3
  /\ \A k \in 1..3 : IsAggregatedPoint(points[k])

====
